---- MODULE Spec2Model ----
(***************************************************************************)
(* A model of the source acquisition engine of uk_resell_adk:              *)
(*   - sources/common.py   fetch_page, fetch_sitemap_product_urls,         *)
(*                         the currency table, shuffle_for_source          *)
(*   - sources/{hlj,ninningame,surugaya}.py   fetch_candidates             *)
(*   - sources/trading_cards.py, models.py    candidate construction       *)
(*   - tools.py            find_candidate_items and its diagnostics        *)
(*   - main.py             run_local_dry_run                               *)
(* Text is a sequence of one-character strings, so that lower-casing,      *)
(* substring search and suffix tests are computed, not assumed.            *)
(* Each component has its own specification; a component that a            *)
(* specification does not run stays in its initial state.                  *)
(***************************************************************************)
EXTENDS Integers, Sequences, FiniteSets, TLC

VARIABLES fp, sm, ad, tl, fx, rn, pa, cc

vars == <<fp, sm, ad, tl, fx, rn, pa, cc>>

(***************************************************************************)
(* Bounds of the model.                                                    *)
(***************************************************************************)
MaxRetries == 2
MaxSitemapLimit == 2
MaxAdapterLimit == 2
MaxCount == 2
MaxTicks == 3

(***************************************************************************)
(* Text helpers: str.lower, the `in` operator on strings, str.endswith,    *)
(* str.strip.                                                              *)
(***************************************************************************)
LowerChar(c) ==
    CASE c = "A" -> "a" [] c = "B" -> "b" [] c = "C" -> "c" [] c = "D" -> "d"
      [] c = "E" -> "e" [] c = "F" -> "f" [] c = "G" -> "g" [] c = "H" -> "h"
      [] c = "I" -> "i" [] c = "J" -> "j" [] c = "K" -> "k" [] c = "L" -> "l"
      [] c = "M" -> "m" [] c = "N" -> "n" [] c = "O" -> "o" [] c = "P" -> "p"
      [] c = "Q" -> "q" [] c = "R" -> "r" [] c = "S" -> "s" [] c = "T" -> "t"
      [] c = "U" -> "u" [] c = "V" -> "v" [] c = "W" -> "w" [] c = "X" -> "x"
      [] c = "Y" -> "y" [] c = "Z" -> "z" [] OTHER -> c

Lower(s) == [i \in 1..Len(s) |-> LowerChar(s[i])]

\* needle in hay
Contains(hay, needle) ==
    \E i \in 0..(Len(hay) - Len(needle)) :
        \A j \in 1..Len(needle) : hay[i + j] = needle[j]

EndsWith(s, suffix) ==
    /\ Len(suffix) <= Len(s)
    /\ \A j \in 1..Len(suffix) : s[Len(s) - Len(suffix) + j] = suffix[j]

IsSpace(c) == c \in {" ", "\n", "\t"}

RECURSIVE LStrip(_)
LStrip(s) == IF s # <<>> /\ IsSpace(Head(s)) THEN LStrip(Tail(s)) ELSE s

RECURSIVE RStrip(_)
RStrip(s) ==
    IF s # <<>> /\ IsSpace(s[Len(s)]) THEN RStrip(SubSeq(s, 1, Len(s) - 1)) ELSE s

Strip(s) == LStrip(RStrip(s))

Range(s) == {s[i] : i \in 1..Len(s)}

\* An optional text: None, or a str
NoneText == [set |-> FALSE, value |-> <<>>]
SomeText(text) == [set |-> TRUE, value |-> text]

\* os.getenv(name, default) on an environment variable that may be unset
Getenv(var, default) == IF var.set THEN var.value ELSE default

(***************************************************************************)
(* sources/common.py: fetch_page                                           *)
(***************************************************************************)
\* bytes.decode("utf-8", errors="ignore"): an invalid byte is dropped.
InvalidByte == "\\xff"

RECURSIVE Decode(_)
Decode(bytes) ==
    IF bytes = <<>> THEN <<>>
    ELSE IF Head(bytes) = InvalidByte THEN Decode(Tail(bytes))
    ELSE <<Head(bytes)>> \o Decode(Tail(bytes))

BlockIndicators ==
    { <<"r","o","b","o","t","c","h","e","c","k">>,
      <<"/","c","h","a","l","l","e","n","g","e">>,
      <<"c","f","-","c","h","l">>,
      <<"c","a","p","t","c","h","a">>,
      <<"a","t","t","e","n","t","i","o","n"," ","r","e","q","u","i","r","e","d">>,
      <<"a","c","c","e","s","s"," ","d","e","n","i","e","d">>,
      <<"v","e","r","i","f","y"," ","y","o","u"," ","a","r","e"," ","h","u","m","a","n">> }

\* (variant: the body is not lower-cased)
LooksLikeBlockPageCaseSensitive(content) ==
    \E x \in BlockIndicators : Contains(content, x)

\* _looks_like_block_page
LooksLikeBlockPage(content) ==
    LET low == Lower(content)
    IN  \E x \in BlockIndicators : Contains(low, x)

\* The response bodies (bytes) the server may send.
ResponseBodies ==
    { <<>>,
      <<"o","k">>,
      <<"c","a","p","t","c","h">>,
      <<"C","A","P","T","C","H","A">>,
      <<"x","C","f","-","c","H","l">>,
      <<"A","c","c","e","s","s"," ","D","e","n","i","e","d","!">>,
      <<"c","a","p", InvalidByte, "t","c","h","a">> }

\* What urlopen / response.read can raise.
TransportErrors == {"URLError", "TimeoutError"}

\* One HTTP exchange: a body, or a transport failure.
Responses ==
    [kind : {"body"}, body : ResponseBodies, error : {"None"}]
      \cup [kind : {"error"}, body : {<<>>}, error : TransportErrors]

NoError == [type |-> "None", attempt |-> -1]

\* time.sleep(0.3 * (2 ** attempt)), in tenths of a second
BackoffTenths(attempt) == 3 * (2 ^ attempt)

FpIdle ==
    [ pc |-> "idle", retries |-> 0, attempt |-> 0, last_error |-> NoError,
      DEBUG_ENABLED |-> FALSE,
      gets |-> <<>>, sleeps |-> <<>>, snapshots |-> <<>>,
      returned |-> <<>>, raised |-> NoError ]

\* The exception an attempt ends with ("None" when it returns its content).
AttemptError(resp) ==
    IF resp.kind = "error" THEN resp.error
    ELSE IF LooksLikeBlockPage(Decode(resp.body)) THEN "SourceBlockedError"
    ELSE "None"

\* (variant: one attempt too many)
LoopContinuesOneMore(attempt, retries) == attempt < retries + 2

\* for attempt in range(retries + 1): are there attempts left
LoopContinues(attempt, retries) == attempt < retries + 1

\* (variant: the first error is kept)
RecordErrorKeepFirst(last_error, exc) ==
    IF last_error.type = "None" THEN exc ELSE last_error

\* except Exception as exc: last_error = exc
RecordError(last_error, exc) == exc

\* (variant: the call also sleeps after its last failure)
SleepsAfterEveryFailure(attempt, retries) == attempt <= retries

\* if attempt < retries: time.sleep(...)
SleepsAfter(attempt, retries) == attempt < retries

\* (variant: the snapshot is written whatever the flag)
DebugSnapshotWrittenAlways(DEBUG_ENABLED) == TRUE

\* _write_debug_snapshot: if not DEBUG_ENABLED: return
DebugSnapshotWritten(DEBUG_ENABLED) == DEBUG_ENABLED

\* The call: fetch_page(url, retries=r) with debug capture on or off.
FetchPageCall(r, dbg) ==
    /\ fp.pc = "idle"
    /\ fp' = [FpIdle EXCEPT !.pc = "loop", !.retries = r, !.DEBUG_ENABLED = dbg]
    /\ UNCHANGED <<sm, ad, tl, fx, rn, pa, cc>>

\* One iteration of the retry loop: urlopen, read, decode, snapshot, block
\* check, and on failure the except clause with its sleep.
FetchPageAttempt(resp) ==
    /\ fp.pc = "loop"
    /\ LoopContinues(fp.attempt, fp.retries)
    /\ LET content == Decode(resp.body)
           err == AttemptError(resp)
           exc == [type |-> err, attempt |-> fp.attempt]
           got == Append(fp.gets, [attempt |-> fp.attempt, resp |-> resp, error |-> err])
           snaps == IF resp.kind = "body" /\ DebugSnapshotWritten(fp.DEBUG_ENABLED)
                    THEN Append(fp.snapshots, [attempt |-> fp.attempt, content |-> content])
                    ELSE fp.snapshots
       IN  IF err = "None"
           THEN fp' = [fp EXCEPT !.pc = "returned", !.returned = content,
                                 !.gets = got, !.snapshots = snaps]
           ELSE fp' = [fp EXCEPT !.last_error = RecordError(fp.last_error, exc),
                                 !.attempt = fp.attempt + 1,
                                 !.gets = got, !.snapshots = snaps,
                                 !.sleeps = IF SleepsAfter(fp.attempt, fp.retries)
                                            THEN Append(fp.sleeps,
                                                   [after |-> fp.attempt,
                                                    tenths |-> BackoffTenths(fp.attempt)])
                                            ELSE fp.sleeps]
    /\ UNCHANGED <<sm, ad, tl, fx, rn, pa, cc>>

\* After the loop: raise last_error, or RuntimeError("unreachable").
FetchPageExhausted ==
    /\ fp.pc = "loop"
    /\ ~LoopContinues(fp.attempt, fp.retries)
    /\ fp' = [fp EXCEPT !.pc = "raised",
                        !.raised = IF fp.last_error # NoError THEN fp.last_error
                                   ELSE [type |-> "RuntimeError", attempt |-> -1]]
    /\ UNCHANGED <<sm, ad, tl, fx, rn, pa, cc>>

(***************************************************************************)
(* sources/common.py: extract_sitemap_locs, fetch_sitemap_product_urls     *)
(***************************************************************************)
DotXml == <<".","x","m","l">>
SitemapPath == <<"/","s","i","t","e","m","a","p",".","x","m","l">>

RECURSIVE RStripSlash(_)
\* home_url.rstrip("/")
RStripSlash(s) ==
    IF s # <<>> /\ s[Len(s)] = "/" THEN RStripSlash(SubSeq(s, 1, Len(s) - 1)) ELSE s

HomeUrls == { <<"h","/">> }

\* queue = [f"{root}/sitemap.xml"]
RootSitemap(home_url) == RStripSlash(home_url) \o SitemapPath

\* Locations the served documents use.
SmA == <<"a",".","x","m","l">>
SmB == <<"b",".","x","m","l">>
SmC == <<"c",".","x","m","l">>
SmE == <<"e",".","x","m","l">>
SmRoot == RootSitemap(<<"h","/">>)
UrlP1 == <<"/","p","/","1">>
UrlP2 == <<"/","P","/","2">>
UrlP3 == <<"/","p","/","3">>
UrlBlog == <<"/","p","/","b","l","o","g">>
UrlOther == <<"/","n","/","4">>
UrlUpperXml == <<"/","p",".","X","M","L">>

Elem(tag, text) == [tag |-> tag, text |-> text]
LocTag == <<"l","o","c">>

\* The sitemap documents a server may answer with: sequences of elements.
SitemapDocuments ==
    { <<>>,
      << Elem(LocTag, SmA), Elem(<<"L","O","C">>, <<" ">> \o SmB) >>,
      << Elem(LocTag, SmRoot), Elem(LocTag, SmA), Elem(LocTag, SmC),
         Elem(LocTag, UrlOther) >>,
      << Elem(LocTag, SmE), Elem(LocTag, UrlBlog) >>,
      << Elem(LocTag, UrlP2), Elem(<<"l","a","s","t","m","o","d">>, UrlP3),
         Elem(LocTag, UrlP1), Elem(LocTag, UrlUpperXml) >>,
      << Elem(LocTag, UrlP1), Elem(LocTag, <<>>), Elem(LocTag, UrlP1 \o <<" ">>) >> }

\* The group ([^<]+) of <loc>\s*([^<]+)\s*</loc>: leading whitespace is
\* consumed by the first \s*, trailing whitespace stays in the group, and a
\* text of whitespace only leaves its last character to the group.
LocGroup(text) ==
    IF LStrip(text) # <<>> THEN LStrip(text) ELSE <<text[Len(text)]>>

RECURSIVE ExtractSitemapLocs(_)
\* extract_sitemap_locs (re.IGNORECASE on the tag)
ExtractSitemapLocs(doc) ==
    IF doc = <<>> THEN <<>>
    ELSE LET e == Head(doc)
         IN  IF Lower(e.tag) = LocTag /\ e.text # <<>>
             THEN <<LocGroup(e.text)>> \o ExtractSitemapLocs(Tail(doc))
             ELSE ExtractSitemapLocs(Tail(doc))

\* not (url_hints and not any(h.lower() in loc.lower() for h in url_hints))
PassesHints(loc, url_hints) ==
    url_hints = <<>>
      \/ \E i \in 1..Len(url_hints) : Contains(Lower(loc), Lower(url_hints[i]))

\* (variant: excludes are compared without lower-casing)
HitsExcludesCaseSensitive(loc, url_excludes) ==
    url_excludes # <<>>
      /\ \E i \in 1..Len(url_excludes) : Contains(loc, url_excludes[i])

\* url_excludes and any(h.lower() in loc.lower() for h in url_excludes)
HitsExcludes(loc, url_excludes) ==
    url_excludes # <<>>
      /\ \E i \in 1..Len(url_excludes) : Contains(Lower(loc), Lower(url_excludes[i]))

\* (variant: one level more)
DepthAllowsFour(depth) == depth < 4

\* depth < 3
DepthAllows(depth) == depth < 3

\* (variant: documents are not remembered)
AlreadySeenNever(doc, seen_sitemaps) == FALSE

\* if sm in seen_sitemaps: continue
AlreadySeen(doc, seen_sitemaps) == doc \in seen_sitemaps

\* (variant: only the anti-bot error is caught)
SitemapCatchesOnlyBlocked(err) == err = "SourceBlockedError"

\* except Exception: continue
SitemapCatches(err) == TRUE

\* if len(urls) >= limit: break
LimitReached(urls, limit) == Len(urls) >= limit

RECURSIVE ProcessLocs(_, _, _)
\* for loc in extract_sitemap_locs(xml): ...   st = [queue, urls, seen_urls]
ProcessLocs(locs, st, c) ==
    IF locs = <<>> THEN st
    ELSE LET loc == Head(locs)
         IN  IF EndsWith(loc, DotXml)
             THEN ProcessLocs(Tail(locs),
                     [st EXCEPT !.queue = IF loc \notin c.seen_sitemaps
                                          THEN Append(@, loc) ELSE @], c)
             ELSE IF ~PassesHints(loc, c.url_hints) THEN ProcessLocs(Tail(locs), st, c)
             ELSE IF HitsExcludes(loc, c.url_excludes) THEN ProcessLocs(Tail(locs), st, c)
             ELSE IF loc \in st.seen_urls THEN ProcessLocs(Tail(locs), st, c)
             ELSE LET st2 == [st EXCEPT !.seen_urls = @ \cup {loc},
                                        !.urls = Append(@, loc)]
                  IN  IF LimitReached(st2.urls, c.limit) THEN st2
                      ELSE ProcessLocs(Tail(locs), st2, c)

\* What fetch_page gives the crawler: a document, or the error it raises.
SitemapFetchResults ==
    [error : {"None"}, doc : SitemapDocuments]
      \cup [error : {"SourceBlockedError", "URLError"}, doc : {<<>>}]

SitemapHints == { <<>>, << <<"/","P">> >> }
SitemapExcludes == { <<>>, << <<"/","B","L">> >> }

SmIdle ==
    [ pc |-> "idle", limit |-> 0, url_hints |-> <<>>, url_excludes |-> <<>>,
      queue |-> <<>>, seen_sitemaps |-> {}, urls |-> <<>>, seen_urls |-> {},
      depth |-> 0, current_batch |-> <<>>, idx |-> 0,
      fetched |-> <<>>, raised |-> "None" ]

\* fetch_sitemap_product_urls(home_url, url_hints, url_excludes, limit)
SitemapCall(home_url, hints, excludes, limit) ==
    /\ sm.pc = "idle"
    /\ sm' = [SmIdle EXCEPT !.pc = "while", !.limit = limit,
                            !.url_hints = hints, !.url_excludes = excludes,
                            !.queue = <<RootSitemap(home_url)>>]
    /\ UNCHANGED <<fp, ad, tl, fx, rn, pa, cc>>

WhileCondition ==
    sm.queue # <<>> /\ Len(sm.urls) < sm.limit /\ DepthAllows(sm.depth)

\* while ...: depth += 1; current_batch = list(queue); queue.clear()
SitemapLevelStart ==
    /\ sm.pc = "while"
    /\ WhileCondition
    /\ sm' = [sm EXCEPT !.pc = "batch", !.depth = @ + 1,
                        !.current_batch = sm.queue, !.queue = <<>>, !.idx = 1]
    /\ UNCHANGED <<fp, ad, tl, fx, rn, pa, cc>>

\* the while condition is false: return urls
SitemapReturn ==
    /\ sm.pc = "while"
    /\ ~WhileCondition
    /\ sm' = [sm EXCEPT !.pc = "done"]
    /\ UNCHANGED <<fp, ad, tl, fx, rn, pa, cc>>

\* where the for loop over current_batch goes after one document
AfterDoc(idx, current_batch) == IF idx = Len(current_batch) THEN "while" ELSE "batch"

\* for sm in current_batch: if sm in seen_sitemaps: continue
SitemapSkipSeen ==
    /\ sm.pc = "batch"
    /\ AlreadySeen(sm.current_batch[sm.idx], sm.seen_sitemaps)
    /\ sm' = [sm EXCEPT !.idx = @ + 1, !.pc = AfterDoc(sm.idx, sm.current_batch)]
    /\ UNCHANGED <<fp, ad, tl, fx, rn, pa, cc>>

\* (variant: a nested sitemap is appended to the batch being iterated)
QueuedForCurrentLevel(current_batch, queue, found) ==
    [current_batch |-> current_batch \o found, queue |-> queue]

\* current_batch = list(queue) is a copy: queue.append(loc) leaves the batch
\* being iterated alone and the nested sitemap waits in queue
QueuedForNextLevel(current_batch, queue, found) ==
    [current_batch |-> current_batch, queue |-> queue \o found]

\* for sm in current_batch: seen_sitemaps.add(sm); fetch_page; the loc loop
\* (fetched is the history of the fetch_page calls: the document, the value
\* of depth, the outcome and the nested sitemaps the document made it append)
SitemapDoc(res) ==
    /\ sm.pc = "batch"
    /\ ~AlreadySeen(sm.current_batch[sm.idx], sm.seen_sitemaps)
    /\ LET doc == sm.current_batch[sm.idx]
           seen == sm.seen_sitemaps \cup {doc}
           Log(found) == Append(sm.fetched, [doc |-> doc, level |-> sm.depth,
                                             error |-> res.error, queued |-> found])
           log == Log(<<>>)
       IN  IF res.error # "None"
           THEN IF SitemapCatches(res.error)
                THEN sm' = [sm EXCEPT !.seen_sitemaps = seen, !.fetched = log,
                                      !.idx = @ + 1,
                                      !.pc = AfterDoc(sm.idx, sm.current_batch)]
                ELSE sm' = [sm EXCEPT !.seen_sitemaps = seen, !.fetched = log,
                                      !.pc = "raised", !.raised = res.error]
           ELSE LET st == ProcessLocs(ExtractSitemapLocs(res.doc),
                              [queue |-> sm.queue, urls |-> sm.urls,
                               seen_urls |-> sm.seen_urls],
                              [seen_sitemaps |-> seen, url_hints |-> sm.url_hints,
                               url_excludes |-> sm.url_excludes, limit |-> sm.limit])
                    found == SubSeq(st.queue, Len(sm.queue) + 1, Len(st.queue))
                    q == QueuedForNextLevel(sm.current_batch, sm.queue, found)
                IN  sm' = [sm EXCEPT !.seen_sitemaps = seen, !.fetched = Log(found),
                                     !.queue = q.queue, !.urls = st.urls,
                                     !.current_batch = q.current_batch,
                                     !.seen_urls = st.seen_urls,
                                     !.idx = @ + 1,
                                     !.pc = AfterDoc(sm.idx, q.current_batch)]
    /\ UNCHANGED <<fp, ad, tl, fx, rn, pa, cc>>

NextSitemap ==
    \/ \E h \in HomeUrls, hints \in SitemapHints, ex \in SitemapExcludes,
          limit \in 1..MaxSitemapLimit : SitemapCall(h, hints, ex, limit)
    \/ SitemapLevelStart
    \/ SitemapReturn
    \/ SitemapSkipSeen
    \/ \E res \in SitemapFetchResults : SitemapDoc(res)

(***************************************************************************)
(* models.py, sources/trading_cards.py, sources/{hlj,ninningame,           *)
(* surugaya}.py: candidate construction and fetch_candidates               *)
(***************************************************************************)
Adapters == {"hlj", "ninningame", "surugaya"}

\* descriptor.name (descriptor.key is the adapter's identifier itself)
DescriptorName(a) ==
    CASE a = "hlj" -> "HobbyLink Japan"
      [] a = "ninningame" -> "Nin-Nin-Game"
      [] a = "surugaya" -> "Suruga-ya"

Max(x, y) == IF x >= y THEN x ELSE y
Min(x, y) == IF x <= y THEN x ELSE y

\* the limit= argument of the adapter's fetch_sitemap_product_urls call
SitemapDiscoveryLimit(a, limit) ==
    CASE a = "hlj" -> Max(limit * 3, 30)
      [] a = "ninningame" -> Max(limit * 12, 80)
      [] a = "surugaya" -> Max(limit * 8, 60)

BASE_TRADING_CARD_TERMS ==
    { <<"c","a","r","d">>,
      <<"t","c","g">>,
      <<"b","o","o","s","t","e","r">>,
      <<"s","t","a","r","t","e","r"," ","d","e","c","k">>,
      <<"d","e","c","k">>,
      <<"y","u","g","i","o","h">>,
      <<"y","u","-","g","i","-","o","h">>,
      <<"p","o","k","e","m","o","n">>,
      <<"o","n","e"," ","p","i","e","c","e"," ","c","a","r","d">>,
      <<"d","u","e","l"," ","m","a","s","t","e","r","s">>,
      <<"w","e","i","s","s"," ","s","c","h","w","a","r","z">> }

\* _extra_card_terms
ExtraCardTerms(a) ==
    CASE a = "hlj" ->
           { <<"u","n","i","o","n"," ","a","r","e","n","a">> }
      [] a = "ninningame" ->
           { <<"d","i","g","i","m","o","n">> }
      [] a = "surugaya" ->
           { <<"d","r","a","g","o","n"," ","b","a","l","l">> }

\* _queries
Queries(a) ==
    CASE a = "hlj" ->
           << <<"p","o","k","e","m","o","n"," ","c","a","r","d">>,
              <<"o","n","e"," ","p","i","e","c","e"," ","c","a","r","d"," ","g","a","m","e">>,
              <<"y","u","g","i","o","h"," ","o","c","g">>,
              <<"j","a","p","a","n","e","s","e"," ","t","c","g">> >>
      [] a = "ninningame" ->
           << <<"p","o","k","e","m","o","n"," ","c","a","r","d">>,
              <<"o","n","e"," ","p","i","e","c","e"," ","c","a","r","d"," ","g","a","m","e">>,
              <<"y","u","g","i","o","h">>,
              <<"d","i","g","i","m","o","n"," ","c","a","r","d">> >>
      [] a = "surugaya" ->
           << <<"p","o","k","e","m","o","n"," ","c","a","r","d">>,
              <<"o","n","e"," ","p","i","e","c","e"," ","c","a","r","d"," ","g","a","m","e">>,
              <<"y","u","g","i","o","h">>,
              <<"d","r","a","g","o","n"," ","b","a","l","l"," ","s","u","p","e","r"," ","c","a","r","d">> >>

\* the constant part of _search_url
SearchUrlPrefix(a) ==
    CASE a = "hlj" ->
           <<"h","t","t","p","s",":","/","/","w","w","w",".","h","l","j",".","c","o","m","/","s","e","a","r","c","h","/","?","q","=">>
      [] a = "ninningame" ->
           <<"h","t","t","p","s",":","/","/","w","w","w",".","n","i","n","-","n","i","n","-","g","a","m","e",".","c","o","m","/","e","n","/","s","e","a","r","c","h","?","c","o","n","t","r","o","l","l","e","r","=","s","e","a","r","c","h","&","s","e","a","r","c","h","_","q","u","e","r","y","=">>
      [] a = "surugaya" ->
           <<"h","t","t","p","s",":","/","/","w","w","w",".","s","u","r","u","g","a","-","y","a",".","c","o","m","/","e","n","/","p","r","o","d","u","c","t","s","?","k","e","y","w","o","r","d","=">>

\* _fallback_catalog (prices in pence)
FallbackCatalog(a) ==
    CASE a = "hlj" ->
           << [title |-> <<"P","o","k","e","m","o","n"," ","T","C","G"," ","B","o","o","s","t","e","r"," ","B","o","x">>,
               url |-> <<"h","t","t","p","s",":","/","/","w","w","w",".","h","l","j",".","c","o","m","/","s","e","a","r","c","h","/","?","q","=","p","o","k","e","m","o","n","+","c","a","r","d","+","b","o","o","s","t","e","r","+","b","o","x">>,
               source_price_gbp |-> 4100],
              [title |-> <<"O","n","e"," ","P","i","e","c","e"," ","C","a","r","d"," ","G","a","m","e"," ","B","o","o","s","t","e","r"," ","B","o","x">>,
               url |-> <<"h","t","t","p","s",":","/","/","w","w","w",".","h","l","j",".","c","o","m","/","s","e","a","r","c","h","/","?","q","=","o","n","e","+","p","i","e","c","e","+","c","a","r","d","+","g","a","m","e","+","b","o","o","s","t","e","r","+","b","o","x">>,
               source_price_gbp |-> 5600],
              [title |-> <<"Y","u","-","G","i","-","O","h"," ","O","C","G"," ","B","o","o","s","t","e","r"," ","P","a","c","k">>,
               url |-> <<"h","t","t","p","s",":","/","/","w","w","w",".","h","l","j",".","c","o","m","/","s","e","a","r","c","h","/","?","q","=","y","u","g","i","o","h","+","o","c","g","+","b","o","o","s","t","e","r">>,
               source_price_gbp |-> 2400],
              [title |-> <<"U","n","i","o","n"," ","A","r","e","n","a"," ","T","C","G"," ","S","t","a","r","t","e","r"," ","D","e","c","k">>,
               url |-> <<"h","t","t","p","s",":","/","/","w","w","w",".","h","l","j",".","c","o","m","/","s","e","a","r","c","h","/","?","q","=","u","n","i","o","n","+","a","r","e","n","a","+","s","t","a","r","t","e","r","+","d","e","c","k">>,
               source_price_gbp |-> 1800] >>
      [] a = "ninningame" ->
           << [title |-> <<"P","o","k","e","m","o","n"," ","C","a","r","d"," ","G","a","m","e"," ","B","o","o","s","t","e","r"," ","B","o","x">>,
               url |-> <<"h","t","t","p","s",":","/","/","w","w","w",".","n","i","n","-","n","i","n","-","g","a","m","e",".","c","o","m","/","e","n","/","s","e","a","r","c","h","?","c","o","n","t","r","o","l","l","e","r","=","s","e","a","r","c","h","&","s","e","a","r","c","h","_","q","u","e","r","y","=","p","o","k","e","m","o","n","+","c","a","r","d","+","b","o","o","s","t","e","r","+","b","o","x">>,
               source_price_gbp |-> 4700],
              [title |-> <<"O","n","e"," ","P","i","e","c","e"," ","C","a","r","d"," ","G","a","m","e"," ","B","o","o","s","t","e","r"," ","B","o","x">>,
               url |-> <<"h","t","t","p","s",":","/","/","w","w","w",".","n","i","n","-","n","i","n","-","g","a","m","e",".","c","o","m","/","e","n","/","s","e","a","r","c","h","?","c","o","n","t","r","o","l","l","e","r","=","s","e","a","r","c","h","&","s","e","a","r","c","h","_","q","u","e","r","y","=","o","n","e","+","p","i","e","c","e","+","c","a","r","d","+","g","a","m","e","+","b","o","o","s","t","e","r","+","b","o","x">>,
               source_price_gbp |-> 5500],
              [title |-> <<"Y","u","-","G","i","-","O","h"," ","O","C","G"," ","P","a","c","k">>,
               url |-> <<"h","t","t","p","s",":","/","/","w","w","w",".","n","i","n","-","n","i","n","-","g","a","m","e",".","c","o","m","/","e","n","/","s","e","a","r","c","h","?","c","o","n","t","r","o","l","l","e","r","=","s","e","a","r","c","h","&","s","e","a","r","c","h","_","q","u","e","r","y","=","y","u","g","i","o","h","+","o","c","g">>,
               source_price_gbp |-> 2100],
              [title |-> <<"D","i","g","i","m","o","n"," ","C","a","r","d"," ","G","a","m","e"," ","S","t","a","r","t","e","r"," ","D","e","c","k">>,
               url |-> <<"h","t","t","p","s",":","/","/","w","w","w",".","n","i","n","-","n","i","n","-","g","a","m","e",".","c","o","m","/","e","n","/","s","e","a","r","c","h","?","c","o","n","t","r","o","l","l","e","r","=","s","e","a","r","c","h","&","s","e","a","r","c","h","_","q","u","e","r","y","=","d","i","g","i","m","o","n","+","c","a","r","d","+","s","t","a","r","t","e","r","+","d","e","c","k">>,
               source_price_gbp |-> 1900] >>
      [] a = "surugaya" ->
           << [title |-> <<"P","o","k","e","m","o","n"," ","C","a","r","d"," ","J","a","p","a","n","e","s","e"," ","B","o","o","s","t","e","r"," ","B","o","x">>,
               url |-> <<"h","t","t","p","s",":","/","/","w","w","w",".","s","u","r","u","g","a","-","y","a",".","c","o","m","/","e","n","/","p","r","o","d","u","c","t","s","?","k","e","y","w","o","r","d","=","p","o","k","e","m","o","n","+","c","a","r","d","+","b","o","o","s","t","e","r","+","b","o","x">>,
               source_price_gbp |-> 4900],
              [title |-> <<"Y","u","-","G","i","-","O","h"," ","O","C","G"," ","J","a","p","a","n","e","s","e"," ","B","o","x">>,
               url |-> <<"h","t","t","p","s",":","/","/","w","w","w",".","s","u","r","u","g","a","-","y","a",".","c","o","m","/","e","n","/","p","r","o","d","u","c","t","s","?","k","e","y","w","o","r","d","=","y","u","g","i","o","h","+","o","c","g","+","b","o","x">>,
               source_price_gbp |-> 3400] >>

\* is_trading_card_item
IsTradingCardItem(title, extra_terms) ==
    LET low == Lower(title)
    IN  \E term \in BASE_TRADING_CARD_TERMS \cup extra_terms : Contains(low, term)

\* new_fetch_meta, and the example lists SurugaYaAdapter adds to it
NewFetchMeta(a) ==
    LET counters == [blocked |-> 0, fetch_errors |-> 0, parse_misses |-> 0,
                     live_items |-> 0, fallback_items |-> 0]
    IN  IF a = "surugaya"
        THEN counters @@ [parse_miss_examples |-> <<>>, fetch_error_examples |-> <<>>,
                          blocked_examples |-> <<>>]
        ELSE counters

\* if len(meta[...]) < 5: meta[...].append(...)   (SurugaYaAdapter only; the
\* example text is kept as the URL it begins with)
AddExample(meta, key, url) ==
    IF key \in DOMAIN meta /\ Len(meta[key]) < 5
    THEN [meta EXCEPT ![key] = Append(@, url)]
    ELSE meta

\* estimate_shipping_to_uk_gbp, in pence
EstimateShippingToUk(source_price) ==
    Max(1200, Min(3500, 1200 + ((source_price * 8 + 50) \div 100)))

\* The fields of the CandidateItem dataclass (models.py).
CandidateItemFields ==
    {"site_name", "title", "url", "source_price_gbp", "shipping_to_uk_gbp", "condition"}

\* (variant: a CandidateItem that stores whatever keywords it is given)
CandidateItemAcceptsAnyKeyword(kwargs) == CandidateItemFields \subseteq DOMAIN kwargs

\* CandidateItem.__init__ (generated by @dataclass): every field is required
\* and any other keyword is a TypeError.
CandidateItemAccepts(kwargs) == DOMAIN kwargs = CandidateItemFields

\* (variant: no test for a URL already seen, the candidate stored with the
\* keywords it is given)
AppendCandidateFromRowNoSeenTest(items, seen_urls, row, a, data_origin) ==
    LET url == Strip(row.url)
        title == Strip(row.title)
    IN  IF url = <<>> \/ title = <<>> \/ ~IsTradingCardItem(title, ExtraCardTerms(a))
        THEN [items |-> items, seen_urls |-> seen_urls, added |-> FALSE, error |-> "None"]
        ELSE [items |-> Append(items, [ site_name |-> DescriptorName(a), title |-> title,
                                        url |-> url,
                                        source_price_gbp |-> row.source_price_gbp,
                                        shipping_to_uk_gbp |->
                                            EstimateShippingToUk(row.source_price_gbp),
                                        condition |-> "New", source_id |-> a,
                                        fetched_at_utc |-> "now",
                                        data_origin |-> data_origin ]),
              seen_urls |-> seen_urls \cup {url}, added |-> TRUE, error |-> "None"]

\* append_candidate_from_row (require_card_title is always left at True)
AppendCandidateFromRow(items, seen_urls, row, a, data_origin) ==
    LET url == Strip(row.url)
        title == Strip(row.title)
        skipped == [items |-> items, seen_urls |-> seen_urls, added |-> FALSE,
                    error |-> "None"]
    IN  IF url = <<>> \/ title = <<>> \/ url \in seen_urls THEN skipped
        ELSE IF ~IsTradingCardItem(title, ExtraCardTerms(a)) THEN skipped
        ELSE LET kwargs == [ site_name |-> DescriptorName(a),
                             title |-> title,
                             url |-> url,
                             source_price_gbp |-> row.source_price_gbp,
                             shipping_to_uk_gbp |-> EstimateShippingToUk(row.source_price_gbp),
                             condition |-> "New",
                             source_id |-> a,
                             fetched_at_utc |-> "now",
                             data_origin |-> data_origin ]
             IN  IF CandidateItemAccepts(kwargs)
                 THEN [items |-> Append(items, kwargs), seen_urls |-> seen_urls \cup {url},
                       added |-> TRUE, error |-> "None"]
                 ELSE [items |-> items, seen_urls |-> seen_urls \cup {url},
                       added |-> FALSE, error |-> "TypeError"]

\* Rows the extractors find in a page, and the pages a site may serve.
Row(title, url, price) == [title |-> title, url |-> url, source_price_gbp |-> price]
RowUrl1 == <<"u","1">>
RowUrl2 == <<"u","2">>
RowUrl3 == <<"u","3">>
RowCard == Row(<<"T","C","G"," ","s","e","t">>, <<" ","u","1"," ">>, 5999)
RowDeck == Row(<<"D","e","c","k">>, RowUrl1, 2500)
RowToy == Row(<<"t","o","y">>, RowUrl2, 900)
RowBlank == Row(<<" ">>, RowUrl3, 700)
RowNoUrl == Row(<<"c","a","r","d">>, <<>>, 700)

NoCodes == [item_codes |-> <<>>, item_names |-> <<>>, item_links |-> <<>>]
Page(jsonld, html, codes) == [jsonld |-> jsonld, html |-> html] @@ codes

\* One HLJ search result: <input id="en_name_X1" value="Deck"> with a link.
CodesX1 ==
    [ item_codes |-> <<"X1", "X2">>,
      item_names |-> [c \in {"X2"} |-> <<"t","o","y">>],
      item_links |-> [c \in {"X1", "X2"} |->
                        IF c = "X1" THEN <<"/","x","1">> ELSE <<"h","t","t","p","x","2">>] ]

Pages ==
    { Page(<<>>, <<>>, NoCodes),
      Page(<<RowToy, RowBlank>>, <<RowCard>>, NoCodes),
      Page(<<>>, <<RowNoUrl, RowDeck>>, NoCodes),
      Page(<<RowToy>>, <<>>, CodesX1),
      Page(<<>>, <<>>, CodesX1) }

\* What fetch_page gives a caller that only looks at the final outcome.
PageFetchResults ==
    [error : {"None"}, page : Pages]
      \cup [error : {"SourceBlockedError", "URLError"}, page : {Page(<<>>, <<>>, NoCodes)}]

\* rows = extract_products_from_json_ld(content) or extract_products_from_html(...)
ExtractRows(page) == IF page.jsonld # <<>> THEN page.jsonld ELSE page.html

\* extract_first_product_from_page; <<>> stands for None
ExtractFirstProductFromPage(page_url, page) ==
    LET rows == ExtractRows(page)
    IN  IF rows = <<>> THEN <<>>
        ELSE << [rows[1] EXCEPT !.url = IF @ # <<>> THEN @ ELSE page_url] >>

\* The live-price endpoint's answers: a transport failure or block page, or a
\* body that is not JSON, is JSON but no object, or is an object whose rows
\* carry a priceNoFormat that float() accepts or not (None included).
LivePriceResults ==
    [error : {"SourceBlockedError", "URLError"}, kind : {"none"}, rows : {<<>>}]
      \cup [error : {"None"}, kind : {"invalid_json", "not_a_dict"}, rows : {<<>>}]
      \cup [error : {"None"}, kind : {"dict"},
            rows : { [c \in {"X1"} |->
                        [priceNoFormat |-> [number |-> TRUE, pence |-> 4500],
                         name |-> <<"D","e","c","k">>]],
                     [c \in {"X1", "X2"} |->
                        [priceNoFormat |-> [number |-> FALSE, pence |-> 0],
                         name |-> <<>>]] }]

\* _fetch_live_prices after its fetch_page call returned
ParseLivePrices(res) == IF res.kind = "dict" THEN res.rows ELSE <<>>

StartsWith(s, p) == Len(p) <= Len(s) /\ SubSeq(s, 1, Len(p)) = p
HljHost == <<"h","t","t","p","s",":","/","/","w","w","w",".","h","l","j",".","c","o","m">>

RECURSIVE AppendRows(_, _, _, _)
\* for row in rows: append_candidate_from_row(... data_origin="live") ...
\* st = [items, seen, meta, status]; status "return" is the early return and
\* "raise" an exception leaving fetch_candidates
AppendRows(rows, st, a, limit) ==
    IF rows = <<>> THEN st
    ELSE LET r == AppendCandidateFromRow(st.items, st.seen, Head(rows), a, "live")
         IN  IF r.error # "None"
             THEN [st EXCEPT !.seen = r.seen_urls, !.status = "raise", !.error = r.error]
             ELSE IF ~r.added THEN AppendRows(Tail(rows), st, a, limit)
             ELSE LET st2 == [st EXCEPT !.items = r.items, !.seen = r.seen_urls,
                                        !.meta.live_items = @ + 1]
                  IN  IF Len(st2.items) >= limit THEN [st2 EXCEPT !.status = "return"]
                      ELSE AppendRows(Tail(rows), st2, a, limit)

RECURSIVE AppendFromLivePriceRows(_, _, _, _, _)
\* HLJAdapter._append_from_live_price_rows; status "return" is its True
AppendFromLivePriceRows(codes, st, page, price_map, limit) ==
    IF codes = <<>> THEN st
    ELSE LET code == Head(codes)
             rest == Tail(codes)
         IN  IF code \notin DOMAIN price_map
             THEN AppendFromLivePriceRows(rest, st, page, price_map, limit)
             ELSE IF ~price_map[code].priceNoFormat.number
             THEN AppendFromLivePriceRows(rest, st, page, price_map, limit)
             ELSE IF code \notin DOMAIN page.item_links \/ page.item_links[code] = <<>>
             THEN AppendFromLivePriceRows(rest, st, page, price_map, limit)
             ELSE LET raw_url == page.item_links[code]
                      url == IF StartsWith(raw_url, <<"h","t","t","p">>) THEN raw_url
                             ELSE HljHost \o raw_url
                      title == IF code \in DOMAIN page.item_names /\ page.item_names[code] # <<>>
                               THEN page.item_names[code]
                               ELSE IF price_map[code].name # <<>> THEN price_map[code].name
                               ELSE <<code>>
                      r == AppendCandidateFromRow(st.items, st.seen,
                              Row(title, url, price_map[code].priceNoFormat.pence), "hlj", "live")
                  IN  IF r.error # "None"
                      THEN [st EXCEPT !.seen = r.seen_urls, !.status = "raise",
                                      !.error = r.error]
                      ELSE IF ~r.added
                      THEN AppendFromLivePriceRows(rest, st, page, price_map, limit)
                      ELSE LET st2 == [st EXCEPT !.items = r.items, !.seen = r.seen_urls,
                                                 !.meta.live_items = @ + 1]
                           IN  IF Len(st2.items) >= limit
                               THEN [st2 EXCEPT !.status = "return"]
                               ELSE AppendFromLivePriceRows(rest, st2, page, price_map, limit)

RECURSIVE AppendFallback(_, _, _, _)
\* for title, url, source_price_gbp in self._fallback_catalog: ...
AppendFallback(catalog, st, a, limit) ==
    IF catalog = <<>> THEN st
    ELSE LET r == AppendCandidateFromRow(st.items, st.seen, Head(catalog), a, "fallback")
         IN  IF r.error # "None"
             THEN [st EXCEPT !.seen = r.seen_urls, !.status = "raise", !.error = r.error]
             ELSE IF ~r.added THEN AppendFallback(Tail(catalog), st, a, limit)
             ELSE LET st2 == [st EXCEPT !.items = r.items, !.seen = r.seen_urls,
                                        !.meta.fallback_items = @ + 1]
                  IN  IF Len(st2.items) >= limit THEN st2
                      ELSE AppendFallback(Tail(catalog), st2, a, limit)

\* quote_plus on the characters the queries use
QuotePlus(s) == [i \in 1..Len(s) |-> IF s[i] = " " THEN "+" ELSE s[i]]

\* _search_url
SearchUrl(a, query) == SearchUrlPrefix(a) \o QuotePlus(query)

\* The generator states the model tells apart.
RngStateCount == 3

\* What rng.shuffle leaves of a list, by the state of the generator: three
\* of the orders there are (as it was, reversed, rotated by one; for a list
\* of two these are all the orders).
ShuffledBy(state, s) ==
    CASE state % RngStateCount = 0 -> s
      [] state % RngStateCount = 1 -> [i \in 1..Len(s) |-> s[Len(s) + 1 - i]]
      [] state % RngStateCount = 2 -> [i \in 1..Len(s) |-> s[(i % Len(s)) + 1]]

\* The orders rng.shuffle may leave a list in.
Orderings(s) == { ShuffledBy(state, s) : state \in 0..(RngStateCount - 1) }

\* The characters of seeds, source keys and purposes.
Alphabet ==
    << "a","b","c","d","e","f","g","h","i","j","k","l","m","n","o","p","q","r","s","t",
       "u","v","w","x","y","z","0","1","2","3","4","5","6","7","8","9","-",":"," " >>

Ord(c) == CHOOSE i \in 1..Len(Alphabet) : Alphabet[i] = c

RECURSIVE OrdSum(_)
OrdSum(text) == IF text = <<>> THEN 0 ELSE Ord(Head(text)) + OrdSum(Tail(text))

\* int(hashlib.sha256(text).hexdigest()[:16], 16): a function of the text,
\* here the sum of its characters' positions in the alphabet
Digest(text) == OrdSum(text)

\* descriptor.key as text
SourceKeyText(a) ==
    CASE a = "hlj" -> <<"h","l","j">>
      [] a = "ninningame" -> <<"n","i","n","n","i","n","g","a","m","e">>
      [] a = "surugaya" -> <<"s","u","r","u","g","a","y","a">>

PurposeQueries == <<"q","u","e","r","i","e","s">>
PurposeSitemap == <<"s","i","t","e","m","a","p">>

\* The states the generator of one shuffle_for_source call may start in:
\* random.Random(digest of "seed:source_key:purpose") with a seed configured,
\* random.SystemRandom() without
RngStates(SOURCE_RANDOM_SEED, source_key, purpose) ==
    LET seed == Strip(Getenv(SOURCE_RANDOM_SEED, <<>>))
    IN  IF seed # <<>>
        THEN { Digest(seed \o <<":">> \o source_key \o <<":">> \o purpose) % RngStateCount }
        ELSE 0..(RngStateCount - 1)

\* shuffle_for_source: lists shorter than 2 are returned as they are
ShuffleForSource(s, SOURCE_RANDOM_SEED, source_key, purpose) ==
    IF Len(s) < 2 THEN {s}
    ELSE { ShuffledBy(state, s) : state \in RngStates(SOURCE_RANDOM_SEED, source_key, purpose) }

\* the order the adapter goes through its queries in
QueryOrders(a, SOURCE_RANDOM_SEED) ==
    IF a = "surugaya"
    THEN ShuffleForSource(Queries(a), SOURCE_RANDOM_SEED, SourceKeyText(a), PurposeQueries)
    ELSE {Queries(a)}

\* the order the adapter goes through the sitemap URLs in
SitemapOrders(a, urls, SOURCE_RANDOM_SEED) ==
    IF a = "surugaya"
    THEN ShuffleForSource(urls, SOURCE_RANDOM_SEED, SourceKeyText(a), PurposeSitemap)
    ELSE {urls}

\* The values SOURCE_RANDOM_SEED is set to.
SeedValues == { NoneText, SomeText(<<"s","e","e","d","-","1","2","3">>) }

\* What fetch_sitemap_product_urls may hand back to the adapter.
SitemapUrlLists == { <<>>, <<RowUrl3>>, <<RowUrl2, RowUrl1>> }

EmptyDict == [k \in {} |-> 0]

AdIdle ==
    [ pc |-> "idle", adapter |-> "none", limit |-> 0, allow_fallback |-> FALSE,
      items |-> <<>>, seen |-> {}, meta |-> EmptyDict, last_fetch_meta |-> EmptyDict,
      queries |-> <<>>, qi |-> 0, sitemap_urls |-> <<>>, si |-> 0,
      passes |-> <<>>, error |-> "None", SOURCE_RANDOM_SEED |-> NoneText ]

\* History: the passes in the order they were entered, each with the number
\* of items accumulated when it was entered.
Note(passes, pass, n) ==
    IF passes # <<>> /\ passes[Len(passes)].pass = pass THEN passes
    ELSE Append(passes, [pass |-> pass, items |-> n])

\* (variant: the sitemap pass is run whatever was accumulated)
SitemapPassEnteredAlways(items, limit) == TRUE

\* if len(items) < limit:   (pass 2)
SitemapPassEntered(items, limit) == Len(items) < limit

\* (variant: the fallback pass ignores allow_fallback)
FallbackPassEnteredWithoutFlag(allow_fallback, items, limit) == Len(items) < limit

\* if allow_fallback and len(items) < limit:   (pass 3)
FallbackPassEntered(allow_fallback, items, limit) == allow_fallback /\ Len(items) < limit

\* What an earlier call that returned left in the adapter's last_fetch_meta.
UsedFetchMeta(a) == [NewFetchMeta(a) EXCEPT !.blocked = 1, !.parse_misses = 2]

\* The adapter objects fetch_candidates is called on, with the seed of the
\* environment: fresh ones (last_fetch_meta = {}, also after a call that
\* raised), and an HLJAdapter an earlier call has returned from.
AdapterCallInputs ==
    [ adapter : Adapters, seed : SeedValues, previous : {EmptyDict} ]
      \cup { [ adapter |-> "hlj", seed |-> NoneText, previous |-> UsedFetchMeta("hlj") ] }

\* fetch_candidates(limit, allow_fallback) on adapter a, whose earlier call
\* left `previous` in last_fetch_meta
AdapterCall(a, limit, allow_fallback, seed, order, previous) ==
    /\ ad.pc = "idle"
    /\ ad' = [AdIdle EXCEPT !.pc = "search", !.adapter = a, !.limit = limit,
                            !.allow_fallback = allow_fallback,
                            !.meta = NewFetchMeta(a),
                            !.last_fetch_meta = previous,
                            !.SOURCE_RANDOM_SEED = seed,
                            !.queries = order, !.qi = 1]
    /\ UNCHANGED <<fp, sm, tl, fx, rn, pa, cc>>

\* (variant: a return leaves last_fetch_meta as it was)
LeaveWithoutPublishingMeta(st, next_pc, passes) ==
    CASE st.status = "continue" ->
            [ad EXCEPT !.items = st.items, !.seen = st.seen, !.meta = st.meta,
                       !.passes = passes, !.pc = next_pc]
      [] st.status = "return" ->
            [ad EXCEPT !.items = st.items, !.seen = st.seen, !.meta = st.meta,
                       !.passes = passes, !.pc = "returned"]
      [] st.status = "raise" ->
            [ad EXCEPT !.items = st.items, !.seen = st.seen, !.meta = st.meta,
                       !.passes = passes, !.pc = "raised", !.error = st.error]

\* How one loop iteration leaves fetch_candidates: on to next_pc, the early
\* return (self.last_fetch_meta = meta; return items), or an exception.
Leave(st, next_pc, passes) ==
    CASE st.status = "continue" ->
            [ad EXCEPT !.items = st.items, !.seen = st.seen, !.meta = st.meta,
                       !.passes = passes, !.pc = next_pc]
      [] st.status = "return" ->
            [ad EXCEPT !.items = st.items, !.seen = st.seen, !.meta = st.meta,
                       !.passes = passes, !.pc = "returned",
                       !.last_fetch_meta = st.meta]
      [] st.status = "raise" ->
            [ad EXCEPT !.items = st.items, !.seen = st.seen, !.meta = st.meta,
                       !.passes = passes, !.pc = "raised", !.error = st.error]

AdState == [items |-> ad.items, seen |-> ad.seen, meta |-> ad.meta,
            status |-> "continue", error |-> "None"]

\* except SourceBlockedError / except Exception around an adapter's fetch_page
CountFetchFailure(st, err, url) ==
    IF err = "SourceBlockedError"
    THEN [st EXCEPT !.meta = AddExample([@ EXCEPT !.blocked = @ + 1], "blocked_examples", url)]
    ELSE [st EXCEPT !.meta = AddExample([@ EXCEPT !.fetch_errors = @ + 1],
                                        "fetch_error_examples", url)]

\* if not rows: meta["parse_misses"] += 1
CountParseMiss(st, url) ==
    [st EXCEPT !.meta = AddExample([@ EXCEPT !.parse_misses = @ + 1],
                                   "parse_miss_examples", url)]

\* Pass 1, one query: the search page, for HLJ the live-price lookup, then
\* the generic rows.
AdapterSearch(res, live) ==
    /\ ad.pc = "search"
    /\ LET a == ad.adapter
           search_url == SearchUrl(a, ad.queries[ad.qi])
           passes == Note(ad.passes, "search", Len(ad.items))
           next_pc == IF ad.qi = Len(ad.queries) THEN "sitemap_gate" ELSE "search"
           withQi(r) == [r EXCEPT !.qi = ad.qi + 1]
       IN  IF res.error # "None"
           THEN ad' = withQi(Leave(CountFetchFailure(AdState, res.error, search_url),
                                   next_pc, passes))
           ELSE LET rows == ExtractRows(res.page)
                    codes == res.page.item_codes
                    usesLive == a = "hlj" /\ codes # <<>>
                    st1 == IF ~usesLive THEN AdState
                           ELSE IF live.error # "None"
                           THEN [AdState EXCEPT !.status = "raise", !.error = live.error]
                           ELSE AppendFromLivePriceRows(codes, AdState, res.page,
                                                        ParseLivePrices(live), ad.limit)
                    st2 == IF rows = <<>> THEN CountParseMiss(st1, search_url) ELSE st1
                    st3 == IF st1.status # "continue" THEN st1
                           ELSE AppendRows(rows, st2, a, ad.limit)
                IN  ad' = withQi(Leave(st3, next_pc, passes))
    /\ UNCHANGED <<fp, sm, tl, fx, rn, pa, cc>>

\* Pass 2 entered: fetch_sitemap_product_urls (and SurugaYa's shuffle)
AdapterSitemapCrawl(urls, order) ==
    /\ ad.pc = "sitemap_gate"
    /\ SitemapPassEntered(ad.items, ad.limit)
    /\ Len(urls) <= SitemapDiscoveryLimit(ad.adapter, ad.limit)
    /\ order \in SitemapOrders(ad.adapter, urls, ad.SOURCE_RANDOM_SEED)
    /\ ad' = [ad EXCEPT !.sitemap_urls = order, !.si = 1,
                        !.passes = Note(ad.passes, "sitemap", Len(ad.items)),
                        !.pc = IF order = <<>> THEN "fallback_gate" ELSE "sitemap_pages"]
    /\ UNCHANGED <<fp, sm, tl, fx, rn, pa, cc>>

\* Pass 2 not entered
AdapterSitemapSkip ==
    /\ ad.pc = "sitemap_gate"
    /\ ~SitemapPassEntered(ad.items, ad.limit)
    /\ ad' = [ad EXCEPT !.pc = "fallback_gate"]
    /\ UNCHANGED <<fp, sm, tl, fx, rn, pa, cc>>

\* Pass 2, one URL of the sitemap
AdapterSitemapPage(res) ==
    /\ ad.pc = "sitemap_pages"
    /\ LET a == ad.adapter
           url == ad.sitemap_urls[ad.si]
           passes == Note(ad.passes, "sitemap_page", Len(ad.items))
           next_pc == IF ad.si = Len(ad.sitemap_urls) THEN "fallback_gate"
                      ELSE "sitemap_pages"
           withSi(r) == [r EXCEPT !.si = ad.si + 1]
       IN  IF url \in ad.seen
           THEN ad' = withSi(Leave(AdState, next_pc, ad.passes))
           ELSE IF res.error # "None"
           THEN ad' = withSi(Leave(CountFetchFailure(AdState, res.error, url),
                                   next_pc, passes))
           ELSE LET row == ExtractFirstProductFromPage(url, res.page)
                IN  IF row = <<>>
                    THEN ad' = withSi(Leave(CountParseMiss(AdState, url), next_pc, passes))
                    ELSE ad' = withSi(Leave(AppendRows(row, AdState, a, ad.limit),
                                            next_pc, passes))
    /\ UNCHANGED <<fp, sm, tl, fx, rn, pa, cc>>

\* Pass 3 when it is entered, then self.last_fetch_meta = meta; return items
AdapterFallbackAndReturn ==
    /\ ad.pc = "fallback_gate"
    /\ IF FallbackPassEntered(ad.allow_fallback, ad.items, ad.limit)
       THEN LET st == AppendFallback(FallbackCatalog(ad.adapter), AdState,
                                     ad.adapter, ad.limit)
                passes == Note(ad.passes, "fallback", Len(ad.items))
            IN  ad' = Leave([st EXCEPT !.status = IF @ = "raise" THEN @ ELSE "return"],
                            "returned", passes)
       ELSE ad' = Leave([AdState EXCEPT !.status = "return"], "returned", ad.passes)
    /\ UNCHANGED <<fp, sm, tl, fx, rn, pa, cc>>

NextAdapter ==
    \/ \E c \in AdapterCallInputs, limit \in 0..MaxAdapterLimit, allow_fallback \in BOOLEAN :
          \E order \in QueryOrders(c.adapter, c.seed) :
              AdapterCall(c.adapter, limit, allow_fallback, c.seed, order, c.previous)
    \/ \E res \in PageFetchResults, live \in LivePriceResults : AdapterSearch(res, live)
    \/ \E urls \in SitemapUrlLists :
          \E order \in Orderings(urls) : AdapterSitemapCrawl(urls, order)
    \/ AdapterSitemapSkip
    \/ \E res \in PageFetchResults : AdapterSitemapPage(res)
    \/ AdapterFallbackAndReturn


(***************************************************************************)
(* tools.py: find_candidate_items, the source diagnostics and the runtime  *)
(* options.                                                                *)
(***************************************************************************)
\* SOURCE_ADAPTERS, by descriptor key
SOURCE_ADAPTERS == <<"hlj", "ninningame">>

\* descriptor.name as text
DescriptorNameText(a) ==
    CASE a = "hlj" -> <<"H","o","b","b","y","L","i","n","k"," ","J","a","p","a","n">>
      [] a = "ninningame" -> <<"N","i","n","-","N","i","n","-","G","a","m","e">>
      [] a = "surugaya" -> <<"S","u","r","u","g","a","-","y","a">>

\* SourceDescriptor.strict_live_required: no adapter overrides the default
StrictLiveRequired(a) == TRUE

\* The marketplace names find_candidate_items is called with.
MarketplaceNames ==
    { <<"H","o","b","b","y","L","i","n","k"," ","J","a","p","a","n">>,
      <<" ","N","I","N","-","N","I","N","-","g","a","m","e"," ">>,
      <<"N","i","n","-","N","i","n">>,
      <<"S","u","r","u","g","a","-","y","a">> }

\* (variant: a marketplace name that begins an adapter's name resolves to it)
GetAdapterForMarketplaceByPrefix(name) ==
    LET n == Lower(Strip(name))
        hits == { i \in 1..Len(SOURCE_ADAPTERS) :
                    StartsWith(Lower(DescriptorNameText(SOURCE_ADAPTERS[i])), n) }
    IN  IF hits = {} THEN "None"
        ELSE SOURCE_ADAPTERS[CHOOSE i \in hits : \A j \in hits : i <= j]

\* _get_adapter_for_marketplace; "None" stands for None
GetAdapterForMarketplace(name) ==
    LET n == Lower(Strip(name))
        hits == { i \in 1..Len(SOURCE_ADAPTERS) :
                    Lower(DescriptorNameText(SOURCE_ADAPTERS[i])) = n }
    IN  IF hits = {} THEN "None"
        ELSE SOURCE_ADAPTERS[CHOOSE i \in hits : \A j \in hits : i <= j]

\* A CandidateItem as models.py declares it.
CandidateItem(site_name, title, url, source_price_gbp, shipping_to_uk_gbp, condition) ==
    [ site_name |-> site_name, title |-> title, url |-> url,
      source_price_gbp |-> source_price_gbp,
      shipping_to_uk_gbp |-> shipping_to_uk_gbp, condition |-> condition ]

ItemA == CandidateItem("Nin-Nin-Game", "Item A", <<"h","/","a">>, 3000, 1200, "New")
ItemADuplicate ==
    CandidateItem("Nin-Nin-Game", "Item A duplicate", <<" ","H","/","A"," ">>, 4000, 1300, "New")
ItemB == CandidateItem("Nin-Nin-Game", "Item B", <<"h","/","b">>, 2200, 1200, "New")
ItemBlankUrl == CandidateItem("Nin-Nin-Game", "Item C", <<" ">>, 2200, 1200, "New")

\* Lists an adapter may hand back as Sequence[CandidateItem].
ItemLists ==
    { <<>>, <<ItemBlankUrl>>, <<ItemA, ItemADuplicate, ItemB>> }

\* new_fetch_meta with the three counters find_candidate_items reads
FetchMeta(blocked, fetch_errors, parse_misses) ==
    [ blocked |-> blocked, fetch_errors |-> fetch_errors, parse_misses |-> parse_misses,
      live_items |-> 0, fallback_items |-> 0 ]

\* last_fetch_meta as an adapter may leave it on return
FetchMetas ==
    { FetchMeta(0, 0, 0), FetchMeta(1, 0, 0), FetchMeta(0, 2, 0), FetchMeta(0, 0, 1),
      FetchMeta(1, 1, 1) }

ZeroMeta == FetchMeta(0, 0, 0)

\* How adapter.fetch_candidates ends: with an exception, or with a list and
\* the adapter's last_fetch_meta.
AdapterOutcomes ==
    [ raises : {"TypeError", "SourceBlockedError"}, items : {<<>>}, meta : {ZeroMeta} ]
      \cup [ raises : {"None"}, items : { l \in ItemLists : Len(l) <= 1 }, meta : FetchMetas ]
      \cup [ raises : {"None"}, items : ItemLists, meta : {ZeroMeta} ]

RECURSIVE DedupeFrom(_, _, _)
DedupeFrom(items, deduped, seen_urls) ==
    IF items = <<>> THEN deduped
    ELSE LET item == Head(items)
             key == Lower(Strip(item.url))
         IN  IF key = <<>> \/ key \in seen_urls
             THEN DedupeFrom(Tail(items), deduped, seen_urls)
             ELSE DedupeFrom(Tail(items), Append(deduped, item), seen_urls \cup {key})

\* _dedupe_items_by_url
DedupeItemsByUrl(items) == DedupeFrom(items, <<>>, {})

\* Orders _build_run_rng(scope).shuffle may leave the list in.
RunShuffles(deduped) == Orderings(deduped)

\* x.data_origin on an object without that attribute is an AttributeError
OriginCountRaises(deduped) ==
    \E i \in 1..Len(deduped) : "data_origin" \notin DOMAIN deduped[i]

\* sum(1 for x in deduped if x.data_origin == origin)
OriginCount(deduped, origin) ==
    Cardinality({ i \in 1..Len(deduped) : deduped[i].data_origin = origin })

\* int(meta.get(key, 0))
MetaGet(meta, key) == IF key \in DOMAIN meta THEN meta[key] ELSE 0

\* (variant: a fetch error takes precedence over a block)
ResolveSourceStatusErrorFirst(live_count, fallback_count, blocked_count, parse_miss_count, error_count) ==
    IF live_count > 0 THEN "live"
    ELSE IF error_count > 0 THEN "fetch_error"
    ELSE IF blocked_count > 0 THEN "blocked"
    ELSE IF parse_miss_count > 0 THEN "parse_failed"
    ELSE IF fallback_count > 0 THEN "fallback"
    ELSE "no_data"

\* _resolve_source_status
ResolveSourceStatus(live_count, fallback_count, blocked_count, parse_miss_count, error_count) ==
    IF live_count > 0 THEN "live"
    ELSE IF blocked_count > 0 THEN "blocked"
    ELSE IF error_count > 0 THEN "fetch_error"
    ELSE IF parse_miss_count > 0 THEN "parse_failed"
    ELSE IF fallback_count > 0 THEN "fallback"
    ELSE "no_data"

\* (variant: recording an entry replaces the map by one holding that entry)
RecordSourceDiagnosticsReplacingMap(diagnostics, source_name, status, live_count, fallback_count, blocked_count, parse_miss_count, error_count) ==
    [ n \in {source_name} |->
        [ source_name |-> source_name, status |-> status,
          live_count |-> live_count, fallback_count |-> fallback_count,
          blocked_count |-> blocked_count, parse_miss_count |-> parse_miss_count,
          error_count |-> error_count ] ]

\* _record_source_diagnostics: LAST_SOURCE_DIAGNOSTICS[source_name] = {...}
RecordSourceDiagnostics(diagnostics, source_name, status, live_count, fallback_count, blocked_count, parse_miss_count, error_count) ==
    [ n \in DOMAIN diagnostics \cup {source_name} |->
        IF n = source_name
        THEN [ source_name |-> source_name, status |-> status,
               live_count |-> live_count, fallback_count |-> fallback_count,
               blocked_count |-> blocked_count, parse_miss_count |-> parse_miss_count,
               error_count |-> error_count ]
        ELSE diagnostics[n] ]

\* if SOURCE_RUNTIME.strict_live and adapter.descriptor.strict_live_required
\*    and live_count == 0: raise RuntimeError
StrictLiveViolated(strict_live, required, live_count) ==
    strict_live /\ required /\ live_count = 0

\* (variant: only SourceBlockedError is caught)
AdapterFailureCaughtOnlyBlocked(exc) == exc = "SourceBlockedError"

\* except Exception: every exception class the adapters raise is caught
AdapterFailureCaught(exc) == exc \in {"TypeError", "SourceBlockedError", "URLError"}

\* (variant: a failed fetch is recorded as blocked)
AdapterFailureStatusBlocked == "blocked"

\* status="fetch_error" in the except clause
AdapterFailureStatus == "fetch_error"

\* (variant: the strict-live error is raised before the entry is recorded)
DiagnosticsAtStrictLiveErrorUnrecorded(diagnostics, recorded) == diagnostics

\* _record_source_diagnostics(...) comes before the strict-live test, so the
\* map already holds the entry when RuntimeError is raised
DiagnosticsAtStrictLiveError(diagnostics, recorded) == recorded

\* The characters of the marketplace names in code point order.
CodePoints ==
    << " ","-","0","1","2","3","4","5","6","7","8","9",":",
       "A","B","C","D","E","F","G","H","I","J","K","L","M","N","O","P","Q","R","S","T",
       "U","V","W","X","Y","Z",
       "a","b","c","d","e","f","g","h","i","j","k","l","m","n","o","p","q","r","s","t",
       "u","v","w","x","y","z" >>

CodePoint(c) == CHOOSE i \in 1..Len(CodePoints) : CodePoints[i] = c

RECURSIVE TextBefore(_, _)
\* a < b for two str values
TextBefore(a, b) ==
    IF b = <<>> THEN FALSE
    ELSE IF a = <<>> THEN TRUE
    ELSE IF Head(a) # Head(b) THEN CodePoint(Head(a)) < CodePoint(Head(b))
    ELSE TextBefore(Tail(a), Tail(b))

RECURSIVE SortedTexts(_)
\* sorted(keys)
SortedTexts(keys) ==
    IF keys = {} THEN <<>>
    ELSE LET first == CHOOSE k \in keys : \A other \in keys \ {k} : TextBefore(k, other)
         IN  <<first>> \o SortedTexts(keys \ {first})

\* get_source_diagnostics: [LAST_SOURCE_DIAGNOSTICS[k] for k in sorted(keys)]
GetSourceDiagnostics(diagnostics) ==
    LET keys == SortedTexts(DOMAIN diagnostics)
    IN  [ i \in 1..Len(keys) |-> diagnostics[keys[i]] ]

NoCall ==
    [ name |-> <<>>, adapter |-> "None", invoked |-> FALSE,
      allow_fallback |-> FALSE, outcome |-> "none", adapter_error |-> "None",
      raw_items |-> <<>>, fetch_meta |-> EmptyDict, returned |-> <<>>, raised |-> "None" ]

NoStatus ==
    [ live_count |-> 0, fallback_count |-> 0, blocked_count |-> 0,
      parse_miss_count |-> 0, error_count |-> 0, status |-> "none" ]

\* The module state of tools.py after import, with the last operation and
\* what it was called with and ended in.
TlIdle ==
    [ SOURCE_RUNTIME |-> [ allow_fallback |-> FALSE, strict_live |-> FALSE,
                           debug_sources |-> FALSE ],
      LAST_SOURCE_DIAGNOSTICS |-> EmptyDict,
      op |-> "none", call |-> NoCall, resolved |-> NoStatus ]

\* configure_source_runtime (debug_dir left at its default)
ConfigureSourceRuntime(allow_fallback, strict_live, debug_sources) ==
    /\ tl' = [tl EXCEPT !.SOURCE_RUNTIME = [ allow_fallback |-> allow_fallback,
                                            strict_live |-> strict_live,
                                            debug_sources |-> debug_sources ],
                        !.op = "configure"]
    /\ fp' = [fp EXCEPT !.DEBUG_ENABLED = debug_sources]
    /\ UNCHANGED <<sm, ad, fx, rn, pa, cc>>

\* reset_source_diagnostics
ResetSourceDiagnostics ==
    /\ tl' = [tl EXCEPT !.LAST_SOURCE_DIAGNOSTICS = EmptyDict, !.op = "reset"]
    /\ UNCHANGED <<fp, sm, ad, fx, rn, pa, cc>>

\* find_candidate_items(marketplace); outcome is how the adapter's
\* fetch_candidates ends when it is invoked (the limit it is given does not
\* enter what find_candidate_items does with the outcome).
FindCandidateItems(name, outcome) ==
    /\ LET adapter == GetAdapterForMarketplace(name)
           diagnostics == tl.LAST_SOURCE_DIAGNOSTICS
           invoked == [NoCall EXCEPT !.name = name, !.adapter = adapter,
                                     !.invoked = TRUE,
                                     !.allow_fallback = tl.SOURCE_RUNTIME.allow_fallback]
       IN  IF adapter = "None"
           THEN tl' = [tl EXCEPT !.op = "find", !.call = [NoCall EXCEPT !.name = name]]
           ELSE IF outcome.raises # "None"
           THEN IF AdapterFailureCaught(outcome.raises)
                THEN tl' = [tl EXCEPT
                              !.op = "find",
                              !.call = [invoked EXCEPT !.outcome = "raised",
                                                       !.adapter_error = outcome.raises],
                              !.LAST_SOURCE_DIAGNOSTICS =
                                  RecordSourceDiagnostics(diagnostics, name,
                                      AdapterFailureStatus, 0, 0, 0, 0, 1)]
                ELSE tl' = [tl EXCEPT
                              !.op = "find",
                              !.call = [invoked EXCEPT !.outcome = "raised",
                                                       !.adapter_error = outcome.raises,
                                                       !.raised = outcome.raises]]
           ELSE \E deduped \in RunShuffles(DedupeItemsByUrl(outcome.items)) :
                LET returned == [invoked EXCEPT !.outcome = "returned",
                                                !.raw_items = outcome.items,
                                                !.fetch_meta = outcome.meta]
                IN  IF OriginCountRaises(deduped)
                    THEN tl' = [tl EXCEPT !.op = "find",
                                          !.call = [returned EXCEPT
                                                      !.raised = "AttributeError"]]
                    ELSE LET live_count == OriginCount(deduped, "live")
                             fallback_count == OriginCount(deduped, "fallback")
                             blocked_count == MetaGet(outcome.meta, "blocked")
                             parse_miss_count == MetaGet(outcome.meta, "parse_misses")
                             error_count == MetaGet(outcome.meta, "fetch_errors")
                             status == ResolveSourceStatus(live_count, fallback_count,
                                           blocked_count, parse_miss_count, error_count)
                             recorded == RecordSourceDiagnostics(diagnostics, name, status,
                                             live_count, fallback_count, blocked_count,
                                             parse_miss_count, error_count)
                         IN  IF StrictLiveViolated(tl.SOURCE_RUNTIME.strict_live,
                                                   StrictLiveRequired(adapter), live_count)
                             THEN tl' = [tl EXCEPT
                                           !.op = "find",
                                           !.call = [returned EXCEPT
                                                       !.raised = "RuntimeError"],
                                           !.LAST_SOURCE_DIAGNOSTICS =
                                               DiagnosticsAtStrictLiveError(diagnostics,
                                                                            recorded)]
                             ELSE tl' = [tl EXCEPT
                                           !.op = "find",
                                           !.call = [returned EXCEPT
                                                       !.returned = deduped],
                                           !.LAST_SOURCE_DIAGNOSTICS = recorded]
    /\ UNCHANGED <<fp, sm, ad, fx, pa, cc>>

\* _resolve_source_status applied to five counters
ResolveSourceStatusCall(live_count, fallback_count, blocked_count, parse_miss_count, error_count) ==
    /\ tl' = [tl EXCEPT
                !.op = "resolve",
                !.resolved = [ live_count |-> live_count,
                               fallback_count |-> fallback_count,
                               blocked_count |-> blocked_count,
                               parse_miss_count |-> parse_miss_count,
                               error_count |-> error_count,
                               status |-> ResolveSourceStatus(live_count, fallback_count,
                                              blocked_count, parse_miss_count,
                                              error_count) ]]
    /\ UNCHANGED <<fp, sm, ad, fx, rn, pa, cc>>

NextTools ==
    \/ \E allow_fallback \in BOOLEAN, strict_live \in BOOLEAN, debug_sources \in BOOLEAN :
          ConfigureSourceRuntime(allow_fallback, strict_live, debug_sources)
    \/ ResetSourceDiagnostics
    \/ \E name \in MarketplaceNames, outcome \in AdapterOutcomes :
          FindCandidateItems(name, outcome) /\ UNCHANGED rn

NextStatus ==
    \E live_count \in 0..MaxCount, fallback_count \in 0..MaxCount,
       blocked_count \in 0..MaxCount, parse_miss_count \in 0..MaxCount,
       error_count \in 0..MaxCount :
          ResolveSourceStatusCall(live_count, fallback_count, blocked_count,
                                  parse_miss_count, error_count)

(***************************************************************************)
(* sources/common.py: the currency rate table, refresh_currency_rates and  *)
(* currency_to_gbp.                                                        *)
(* A float is modelled in ten-thousandths: [k |-> "num", v |-> n] is       *)
(* n/10000; inf and nan are values of their own.                           *)
(***************************************************************************)
FloatUnit == 10000

Num(v) == [k |-> "num", v |-> v]
Inf == [k |-> "inf", v |-> 0]
NaN == [k |-> "nan", v |-> 0]

\* x * y on floats
Times(x, y) ==
    IF x.k = "nan" \/ y.k = "nan" THEN NaN
    ELSE IF x.k = "inf" \/ y.k = "inf"
    THEN (IF (x.k = "num" /\ x.v = 0) \/ (y.k = "num" /\ y.v = 0) THEN NaN ELSE Inf)
    ELSE Num((x.v * y.v) \div FloatUnit)

\* 1.0 / as_float for an as_float that is not <= 0
Invert(as_float) ==
    CASE as_float.k = "num" -> Num((FloatUnit * FloatUnit) \div as_float.v)
      [] as_float.k = "inf" -> Num(0)
      [] as_float.k = "nan" -> NaN

\* as_float <= 0 (false for nan and for inf)
NonPositive(as_float) == as_float.k = "num" /\ as_float.v <= 0

GBP == <<"G","B","P">>
EUR == <<"E","U","R">>
USD == <<"U","S","D">>
JPY == <<"J","P","Y">>

\* _DEFAULT_CURRENCY_TO_GBP
DEFAULT_CURRENCY_TO_GBP ==
    (GBP :> Num(10000)) @@ (EUR :> Num(8600)) @@ (USD :> Num(7900)) @@ (JPY :> Num(53))

\* symbols = [k for k in sorted(_DEFAULT_CURRENCY_TO_GBP.keys()) if k != "GBP"]
Symbols == <<EUR, JPY, USD>>

UpperChar(c) ==
    CASE c = "a" -> "A" [] c = "b" -> "B" [] c = "c" -> "C" [] c = "d" -> "D"
      [] c = "e" -> "E" [] c = "f" -> "F" [] c = "g" -> "G" [] c = "h" -> "H"
      [] c = "i" -> "I" [] c = "j" -> "J" [] c = "k" -> "K" [] c = "l" -> "L"
      [] c = "m" -> "M" [] c = "n" -> "N" [] c = "o" -> "O" [] c = "p" -> "P"
      [] c = "q" -> "Q" [] c = "r" -> "R" [] c = "s" -> "S" [] c = "t" -> "T"
      [] c = "u" -> "U" [] c = "v" -> "V" [] c = "w" -> "W" [] c = "x" -> "X"
      [] c = "y" -> "Y" [] c = "z" -> "Z" [] OTHER -> c

\* str.upper
Upper(s) == [i \in 1..Len(s) |-> UpperChar(s[i])]

\* (variant: the currency code is looked up as it is written)
CurrencyToGbpCaseSensitive(table, amount, currency) ==
    IF ~currency.set \/ currency.value = <<>> THEN amount
    ELSE IF currency.value \notin DOMAIN table THEN amount
    ELSE Times(amount, table[currency.value])

\* currency_to_gbp
CurrencyToGbp(table, amount, currency) ==
    IF ~currency.set \/ currency.value = <<>> THEN amount
    ELSE IF Upper(currency.value) \notin DOMAIN table THEN amount
    ELSE Times(amount, table[Upper(currency.value)])

\* _env_truthy
EnvTruthy(var, default) ==
    IF ~var.set THEN default
    ELSE Lower(Strip(var.value)) \in
           { <<"1">>, <<"t","r","u","e">>, <<"y","e","s">>, <<"o","n">> }

Digits == <<"0","1","2","3","4","5","6","7","8","9">>

DigitValue(c) == (CHOOSE i \in 1..Len(Digits) : Digits[i] = c) - 1

\* whether int(text) succeeds: an optional sign and at least one digit
\* (text arrives stripped; digit-group underscores are not modelled)
IsIntText(text) ==
    LET body == IF text # <<>> /\ Head(text) \in {"+", "-"} THEN Tail(text) ELSE text
    IN  body # <<>> /\ \A i \in 1..Len(body) : body[i] \in Range(Digits)

RECURSIVE DigitsValue(_)
DigitsValue(body) ==
    IF body = <<>> THEN 0
    ELSE 10 * DigitsValue(SubSeq(body, 1, Len(body) - 1)) + DigitValue(body[Len(body)])

\* int(text)
IntOf(text) ==
    IF Head(text) = "-" THEN 0 - DigitsValue(Tail(text))
    ELSE IF Head(text) = "+" THEN DigitsValue(Tail(text))
    ELSE DigitsValue(text)

DefaultRefreshSeconds == <<"2","1","6","0","0">>

\* (variant: the configured value is used without the lower limit)
TtlSecondsWithoutFloor(FX_REFRESH_SECONDS) ==
    LET ttl_raw == Strip(Getenv(FX_REFRESH_SECONDS, DefaultRefreshSeconds))
    IN  IF IsIntText(ttl_raw) THEN IntOf(ttl_raw) ELSE 21600

\* ttl_seconds: max(300, int(ttl_raw)), 21600 on ValueError
TtlSeconds(FX_REFRESH_SECONDS) ==
    LET ttl_raw == Strip(Getenv(FX_REFRESH_SECONDS, DefaultRefreshSeconds))
    IN  IF IsIntText(ttl_raw) THEN Max(300, IntOf(ttl_raw)) ELSE 21600

\* if not force and _FX_LAST_REFRESH_TS and (now_ts - _FX_LAST_REFRESH_TS) < ttl_seconds
RefreshNotDue(force, last_refresh_ts, now_ts, ttl_seconds) ==
    ~force /\ last_refresh_ts # 0 /\ (now_ts - last_refresh_ts) < ttl_seconds

\* What the payload holds for one symbol: nothing (or null), a number, the
\* literals Infinity and NaN that json.loads accepts, or a text float() rejects.
Absent == [k |-> "absent", v |-> 0]
BadText == [k |-> "text", v |-> 0]

\* rates with no symbol
NoRates == [s \in Range(Symbols) |-> Absent]

RatesOf(eur, jpy, usd) == (EUR :> eur) @@ (JPY :> jpy) @@ (USD :> usd)

\* The rates mappings the remote source answers with.
RatesPayloads ==
    { NoRates,
      RatesOf(Num(11500), Num(1900000), Num(12500)),
      RatesOf(Absent, Absent, Num(20000)),
      RatesOf(Num(0), Absent, Num(12500)),
      RatesOf(Num(-10000), BadText, Absent),
      RatesOf(Absent, Absent, Inf),
      RatesOf(NaN, Absent, Absent) }

\* How the request ends: urlopen or json.loads raises, or json.loads gives a
\* payload that is not an object, an object without "rates", an object whose
\* "rates" is not an object, or an object with a rates mapping.
FxResponses ==
    [ kind : {"URLError", "TimeoutError", "JSONDecodeError", "not_object", "no_rates",
              "rates_not_mapping"}, rates : {NoRates} ]
      \cup [ kind : {"rates"}, rates : RatesPayloads ]

\* urlopen, read or json.loads raised
RequestRaises(response) ==
    response.kind \in {"URLError", "TimeoutError", "JSONDecodeError"}

\* (variant: only URLError is caught)
FxFailureCaughtOnlyURLError(exc) == exc = "URLError"

\* except Exception around urlopen, read and json.loads
FxFailureCaught(exc) == exc \in {"URLError", "TimeoutError", "JSONDecodeError"}

\* rates = payload.get("rates", {}) if isinstance(payload, dict) else {}
\* and isinstance(rates, dict)
PayloadRates(response) ==
    CASE response.kind = "rates" -> [is_dict |-> TRUE, rates |-> response.rates]
      [] response.kind \in {"not_object", "no_rates"} -> [is_dict |-> TRUE, rates |-> NoRates]
      [] response.kind = "rates_not_mapping" -> [is_dict |-> FALSE, rates |-> NoRates]

\* _CURRENCY_TO_GBP.get(symbol, _DEFAULT_CURRENCY_TO_GBP[symbol])
PreviousRate(table, symbol) ==
    IF symbol \in DOMAIN table THEN table[symbol] ELSE DEFAULT_CURRENCY_TO_GBP[symbol]

\* The loop body: the rate stored for one symbol
UpdatedRate(table, symbol, raw) ==
    IF raw.k = "absent" THEN PreviousRate(table, symbol)
    ELSE IF raw.k = "text" THEN PreviousRate(table, symbol)
    ELSE IF NonPositive(raw) THEN PreviousRate(table, symbol)
    ELSE Invert(raw)

\* (variant: the loop writes each rate into the shared table)
StoreRateInTable(table, updated, symbol, rate) ==
    [ table |-> [table EXCEPT ![symbol] = rate],
      updated |-> (symbol :> rate) @@ updated ]

\* updated[symbol] = ...: the loop writes into its local dict
StoreRate(table, updated, symbol, rate) ==
    [ table |-> table, updated |-> (symbol :> rate) @@ updated ]

\* dict.update
DictUpdate(table, updated) ==
    [ k \in DOMAIN table \cup DOMAIN updated |->
        IF k \in DOMAIN updated THEN updated[k] ELSE table[k] ]

\* What is remembered of the call before, when that call failed in the
\* request: whether only `force` made it contact the remote source (without
\* force the TTL test would have skipped it), and whether the environment
\* is still the one it ran under.
NoFailedCall == [ failed |-> FALSE, forced_within_ttl |-> FALSE, same_env |-> FALSE ]

FailedCallBefore(call, env) ==
    IF call.state = "returned" /\ call.response \in {"URLError", "TimeoutError", "JSONDecodeError"}
    THEN [ failed |-> TRUE,
           forced_within_ttl |->
               call.force /\ RefreshNotDue(FALSE, call.last_refresh_before, call.now_ts,
                                           TtlSeconds(call.env.FX_REFRESH_SECONDS)),
           same_env |-> call.env = env ]
    ELSE NoFailedCall

NoFxCall ==
    [ state |-> "none", force |-> FALSE, now_ts |-> 0, contacted |-> FALSE,
      response |-> "none", returned |-> "None", raised |-> "None",
      env |-> [ ENABLE_LIVE_FX_RATES |-> NoneText, FX_REFRESH_SECONDS |-> NoneText ],
      table_before |-> DEFAULT_CURRENCY_TO_GBP, last_refresh_before |-> 0,
      previous |-> NoFailedCall ]

NoConversion == [ done |-> FALSE, amount |-> Num(0), currency |-> NoneText, result |-> Num(0),
                  during_refresh |-> FALSE ]

\* The module state of common.py after import, the environment and the
\* clock, with the refresh call in progress (or the last one) and the last
\* conversion.
FxIdle ==
    [ pc |-> "idle",
      CURRENCY_TO_GBP |-> DEFAULT_CURRENCY_TO_GBP,
      FX_LAST_REFRESH_TS |-> 0,
      env |-> [ ENABLE_LIVE_FX_RATES |-> NoneText, FX_REFRESH_SECONDS |-> NoneText ],
      now |-> 1, ticks |-> 0,
      rates |-> NoRates, updated |-> (GBP :> Num(10000)), si |-> 0,
      call |-> NoFxCall, conv |-> NoConversion ]

\* The values the two environment variables are set to.
EnableValues == { NoneText, SomeText(<<"0">>), SomeText(<<" ","O","N"," ">>) }
RefreshSecondsValues ==
    { NoneText, SomeText(<<"6","0">>), SomeText(<<" ","4","0","0"," ">>),
      SomeText(<<"a","b","c">>) }

\* The environment is set between calls.
SetEnv(enable, refresh_seconds) ==
    /\ fx.pc = "idle"
    /\ fx' = [fx EXCEPT !.env = [ ENABLE_LIVE_FX_RATES |-> enable,
                                  FX_REFRESH_SECONDS |-> refresh_seconds ]]
    /\ UNCHANGED <<fp, sm, ad, tl, rn, pa, cc>>

\* Seconds that pass between calls.
TickSteps == {1, 299, 21300}

\* time.time() moves on between calls.
Tick(d) ==
    /\ fx.pc = "idle"
    /\ fx.ticks < MaxTicks
    /\ fx' = [fx EXCEPT !.now = @ + d, !.ticks = @ + 1]
    /\ UNCHANGED <<fp, sm, ad, tl, rn, pa, cc>>

\* refresh_currency_rates(force) up to the request: the enable flag, the
\* clock, the TTL test and the request that urlopen is then given
\* (previous is what the history keeps of the call before)
RefreshCallRemembering(force, previous) ==
    /\ fx.pc = "idle"
    /\ LET call == [NoFxCall EXCEPT !.state = "running", !.force = force,
                                    !.now_ts = fx.now, !.env = fx.env,
                                    !.table_before = fx.CURRENCY_TO_GBP,
                                    !.last_refresh_before = fx.FX_LAST_REFRESH_TS,
                                    !.previous = previous]
           returns_false == [call EXCEPT !.state = "returned", !.returned = "False"]
       IN  IF ~EnvTruthy(fx.env.ENABLE_LIVE_FX_RATES, TRUE)
           THEN fx' = [fx EXCEPT !.call = returns_false]
           ELSE IF RefreshNotDue(force, fx.FX_LAST_REFRESH_TS, fx.now,
                                 TtlSeconds(fx.env.FX_REFRESH_SECONDS))
           THEN fx' = [fx EXCEPT !.call = returns_false]
           ELSE fx' = [fx EXCEPT !.call = [call EXCEPT !.contacted = TRUE],
                                 !.pc = "request"]
    /\ UNCHANGED <<fp, sm, ad, tl, rn, pa, cc>>

\* refresh_currency_rates(force), no history kept
RefreshCall(force) == RefreshCallRemembering(force, NoFailedCall)

\* refresh_currency_rates(force), remembering a failure of the call before
RefreshCallAfter(force) == RefreshCallRemembering(force, FailedCallBefore(fx.call, fx.env))

\* (variant: the failed attempt is stamped as a refresh)
TimestampAfterFailureStamped(last_refresh_ts, now_ts) == now_ts

\* except Exception: ... return False, with no assignment to
\* _FX_LAST_REFRESH_TS
TimestampAfterFailure(last_refresh_ts, now_ts) == last_refresh_ts

\* urlopen, read, json.loads and the look at the payload's "rates"
RefreshResponse(response) ==
    /\ fx.pc = "request"
    /\ LET call == [fx.call EXCEPT !.response = response.kind]
           returns_false == [call EXCEPT !.state = "returned", !.returned = "False"]
           raises == [call EXCEPT !.state = "raised", !.raised = response.kind]
       IN  IF RequestRaises(response)
           THEN (IF FxFailureCaught(response.kind)
                 THEN fx' = [fx EXCEPT !.call = returns_false, !.pc = "idle",
                                       !.FX_LAST_REFRESH_TS =
                                           TimestampAfterFailure(@, fx.call.now_ts)]
                 ELSE fx' = [fx EXCEPT !.call = raises, !.pc = "idle"])
           ELSE IF ~PayloadRates(response).is_dict
           THEN fx' = [fx EXCEPT !.call = returns_false, !.pc = "idle"]
           ELSE fx' = [fx EXCEPT !.call = call, !.pc = "loop",
                                 !.rates = PayloadRates(response).rates,
                                 !.updated = (GBP :> Num(10000)), !.si = 1]
    /\ UNCHANGED <<fp, sm, ad, tl, rn, pa, cc>>

\* for symbol in symbols: one pass of the loop
RefreshSymbol ==
    /\ fx.pc = "loop"
    /\ fx.si <= Len(Symbols)
    /\ LET symbol == Symbols[fx.si]
           stored == StoreRate(fx.CURRENCY_TO_GBP, fx.updated, symbol,
                               UpdatedRate(fx.CURRENCY_TO_GBP, symbol, fx.rates[symbol]))
       IN  fx' = [fx EXCEPT !.CURRENCY_TO_GBP = stored.table,
                            !.updated = stored.updated, !.si = @ + 1]
    /\ UNCHANGED <<fp, sm, ad, tl, rn, pa, cc>>

\* _CURRENCY_TO_GBP.update(updated): one call of dict.update, which other
\* threads of the interpreter see as a whole
RefreshUpdate ==
    /\ fx.pc = "loop"
    /\ fx.si > Len(Symbols)
    /\ fx' = [fx EXCEPT !.CURRENCY_TO_GBP = DictUpdate(@, fx.updated), !.pc = "stamp"]
    /\ UNCHANGED <<fp, sm, ad, tl, rn, pa, cc>>

\* _FX_LAST_REFRESH_TS = now_ts; return True
RefreshReturn ==
    /\ fx.pc = "stamp"
    /\ fx' = [fx EXCEPT !.FX_LAST_REFRESH_TS = fx.call.now_ts, !.pc = "idle",
                        !.call = [@ EXCEPT !.state = "returned", !.returned = "True"]]
    /\ UNCHANGED <<fp, sm, ad, tl, rn, pa, cc>>

ConversionAmounts == { Num(100000), Num(20000) }

ConversionCurrencies ==
    { NoneText, SomeText(<<>>), SomeText(USD), SomeText(<<"j","p","y">>),
      SomeText(<<" ","U","S","D">>), SomeText(<<"C","H","F">>) }

\* currency_to_gbp(amount, currency), at any moment of a refresh
Convert(amount, currency) ==
    /\ fx' = [fx EXCEPT !.conv = [ done |-> TRUE, amount |-> amount, currency |-> currency,
                                   result |-> CurrencyToGbp(fx.CURRENCY_TO_GBP, amount,
                                                            currency),
                                   during_refresh |-> fx.pc # "idle" ]]
    /\ UNCHANGED <<fp, sm, ad, tl, rn, pa, cc>>

RefreshSteps ==
    \/ \E response \in FxResponses : RefreshResponse(response)
    \/ RefreshSymbol
    \/ RefreshUpdate
    \/ RefreshReturn

\* Refreshes with every kind of response, and conversions between their steps
NextFx ==
    \/ \E force \in BOOLEAN : RefreshCall(force)
    \/ RefreshSteps
    \/ \E amount \in ConversionAmounts, currency \in ConversionCurrencies :
          Convert(amount, currency)

\* The responses of the runs in which time passes.
TtlResponses ==
    { r \in FxResponses :
        \/ r.kind = "TimeoutError"
        \/ (r.kind = "rates" /\ r.rates = RatesOf(Num(11500), Num(1900000), Num(12500))) }

\* Refreshes under every environment as time passes
NextFxTtl ==
    \/ \E enable \in EnableValues, refresh_seconds \in RefreshSecondsValues :
          SetEnv(enable, refresh_seconds)
    \/ \E d \in TickSteps : Tick(d)
    \/ \E force \in BOOLEAN : RefreshCall(force)
    \/ \E response \in TtlResponses : RefreshResponse(response)
    \/ RefreshSymbol
    \/ RefreshUpdate
    \/ RefreshReturn

\* The environments of the runs that look at a call and the call before it.
RetryEnableValues == { NoneText, SomeText(<<"0">>) }
RetryRefreshSecondsValues == { NoneText, SomeText(<<"6","0">>) }

\* A failing or succeeding refresh, then time passing, then the next call
NextFxRetry ==
    \/ \E enable \in RetryEnableValues, refresh_seconds \in RetryRefreshSecondsValues :
          SetEnv(enable, refresh_seconds)
    \/ \E d \in TickSteps : Tick(d)
    \/ \E force \in BOOLEAN : RefreshCallAfter(force)
    \/ \E response \in TtlResponses : RefreshResponse(response)
    \/ RefreshSymbol
    \/ RefreshUpdate
    \/ RefreshReturn

(***************************************************************************)
(* main.py: run_local_dry_run, the loop over the marketplaces of one run.  *)
(***************************************************************************)
\* DEFAULT_CONFIG.max_foreign_sites
max_foreign_sites == 10

\* discover_foreign_marketplaces: one MarketplaceSite per configured adapter,
\* named by the adapter's descriptor
DiscoverForeignMarketplaces ==
    [ i \in 1..Len(SOURCE_ADAPTERS) |-> DescriptorNameText(SOURCE_ADAPTERS[i]) ]

\* discover_foreign_marketplaces()[: DEFAULT_CONFIG.max_foreign_sites]
SelectedMarketplaces ==
    SubSeq(DiscoverForeignMarketplaces, 1,
           Min(Len(DiscoverForeignMarketplaces), max_foreign_sites))

\* No run in progress.  attempted lists the marketplaces find_candidate_items
\* was called for, and outcomes how each of these calls' adapter fetch ended.
RnIdle ==
    [ pc |-> "idle", marketplaces |-> <<>>, i |-> 0, attempted |-> <<>>,
      outcomes |-> <<>>, error |-> "None" ]

\* run_local_dry_run up to the loop: reset_source_diagnostics, then the
\* selection of the marketplaces
RunLocalDryRunStart ==
    /\ rn.pc = "idle"
    /\ tl' = [tl EXCEPT !.LAST_SOURCE_DIAGNOSTICS = EmptyDict, !.op = "reset"]
    /\ rn' = [RnIdle EXCEPT !.pc = "loop", !.marketplaces = SelectedMarketplaces, !.i = 1]
    /\ UNCHANGED <<fp, sm, ad, fx, pa, cc>>

\* for market in marketplaces: candidates.extend(find_candidate_items(market));
\* nothing around the call catches what it raises
RunLocalDryRunFetch(outcome) ==
    /\ rn.pc = "loop"
    /\ rn.i <= Len(rn.marketplaces)
    /\ FindCandidateItems(rn.marketplaces[rn.i], outcome)
    /\ rn' = [rn EXCEPT
                !.attempted = Append(@, rn.marketplaces[rn.i]),
                !.outcomes = Append(@, IF outcome.raises # "None" THEN "adapter_failure"
                                       ELSE IF outcome.items = <<>> THEN "empty"
                                       ELSE "items"),
                !.i = @ + 1,
                !.pc = IF tl'.call.raised # "None" THEN "raised" ELSE "loop",
                !.error = tl'.call.raised]

\* the rest of run_local_dry_run, after the loop
RunLocalDryRunFinish ==
    /\ rn.pc = "loop"
    /\ rn.i > Len(rn.marketplaces)
    /\ rn' = [rn EXCEPT !.pc = "done"]
    /\ UNCHANGED <<fp, sm, ad, tl, fx, pa, cc>>

\* main: configure_source_runtime from the command line, then one run
NextRun ==
    \/ \E allow_fallback \in BOOLEAN, strict_live \in BOOLEAN, debug_sources \in BOOLEAN :
          /\ rn.pc = "idle"
          /\ tl.op = "none"
          /\ ConfigureSourceRuntime(allow_fallback, strict_live, debug_sources)
    \/ RunLocalDryRunStart
    \/ \E outcome \in AdapterOutcomes : RunLocalDryRunFetch(outcome)
    \/ RunLocalDryRunFinish

(***************************************************************************)
(* tools.py: assess_profitability_against_ebay.  Money is held in          *)
(* ten-thousandths of a pound (FloatUnit), which keeps the arithmetic of   *)
(* the inputs used here exact; a percentage is held the same way.          *)
(***************************************************************************)
\* EBAY_FINAL_VALUE_FEE_RATE = 0.0, in ten-thousandths
EBAY_FINAL_VALUE_FEE_RATE == 0

\* EBAY_PER_ORDER_FEE_GBP = 0.0
EBAY_PER_ORDER_FEE_GBP == 0

\* _safe_fetch_ebay_price_snapshots stops at 20 prices
MaxSnapshots == 20

\* the number of snapshots from which the confidence is "high"
HighConfidenceCount == 8

Pounds(whole, pence) == (whole * 100 + pence) * (FloatUnit \div 100)

RECURSIVE Insert(_, _)
Insert(x, sorted) ==
    IF sorted = <<>> THEN <<x>>
    ELSE IF x <= Head(sorted) THEN <<x>> \o sorted
    ELSE <<Head(sorted)>> \o Insert(x, Tail(sorted))

RECURSIVE Sorted(_)
Sorted(s) == IF s = <<>> THEN <<>> ELSE Insert(Head(s), Sorted(Tail(s)))

\* (variant: the middle of the list as it was retrieved)
MedianOfUnsorted(data) ==
    LET n == Len(data)
    IN  IF n % 2 = 1 THEN data[(n + 1) \div 2]
        ELSE (data[n \div 2] + data[n \div 2 + 1]) \div 2

\* statistics.median of a non-empty list
Median(data) ==
    LET s == Sorted(data)
        n == Len(s)
    IN  IF n % 2 = 1 THEN s[(n + 1) \div 2]
        ELSE (s[n \div 2] + s[n \div 2 + 1]) \div 2

RECURSIVE Gcd(_, _)
Gcd(a, b) == IF b = 0 THEN a ELSE Gcd(b, a % b)

Abs(x) == IF x < 0 THEN 0 - x ELSE x

\* The multiples of `step` that round(n/d in units of step) may give: the
\* nearest one, and either neighbour when n/d lies exactly between two (the
\* binary value of the float decides which).
RoundRatio(n, d) ==
    LET q == n \div d
        r == n % d
    IN  IF 2 * r < d THEN {q}
        ELSE IF 2 * r > d THEN {q + 1}
        ELSE {q, q + 1}

\* round(x, 2) of an amount
Round2(x) == { q * (FloatUnit \div 100) : q \in RoundRatio(x, FloatUnit \div 100) }

\* round((profit / landed_cost) * 100 if landed_cost else 0, 2)
Margin(profit, landed_cost) ==
    IF landed_cost # 0
    THEN LET g == Gcd(Abs(profit), landed_cost)
         IN  { q * (FloatUnit \div 100) : q \in RoundRatio((profit \div g) * 10000, landed_cost \div g) }
    ELSE {0}

\* benchmark = median(sold_prices) if sold_prices else item.source_price_gbp * 1.35
Benchmark(sold_prices, source_price_gbp) ==
    IF sold_prices # <<>> THEN Median(sold_prices) ELSE (source_price_gbp * 135) \div 100

\* fees = (benchmark * EBAY_FINAL_VALUE_FEE_RATE) + EBAY_PER_ORDER_FEE_GBP
Fees(benchmark) ==
    (benchmark * EBAY_FINAL_VALUE_FEE_RATE) \div FloatUnit + EBAY_PER_ORDER_FEE_GBP

\* (variant: "high" only above 8 prices)
ConfidenceAboveEight(sold_prices) ==
    IF sold_prices # <<>> /\ Len(sold_prices) > HighConfidenceCount THEN "high"
    ELSE IF sold_prices # <<>> THEN "medium"
    ELSE "low"

\* if sold_prices and len(sold_prices) >= 8: ... elif sold_prices: ... else: ...
Confidence(sold_prices) ==
    IF sold_prices # <<>> /\ Len(sold_prices) >= HighConfidenceCount THEN "high"
    ELSE IF sold_prices # <<>> THEN "medium"
    ELSE "low"

\* The candidates assessed: source price and shipping.
AssessedItems ==
    { [source_price_gbp |-> Pounds(100, 0), shipping_to_uk_gbp |-> Pounds(20, 0)],
      [source_price_gbp |-> Pounds(10, 0), shipping_to_uk_gbp |-> Pounds(5, 0)],
      [source_price_gbp |-> Pounds(9, 99), shipping_to_uk_gbp |-> Pounds(3, 50)],
      [source_price_gbp |-> 0, shipping_to_uk_gbp |-> 0] }

\* What _safe_fetch_ebay_price_snapshots returns: up to 20 prices between 3
\* and 10000 in page order; rising, falling, and odd pence.
SoldPriceLists ==
    UNION { { [i \in 1..n |-> Pounds(8 + 2 * i, 0)],
              [i \in 1..n |-> Pounds(50 - 2 * i, 0)],
              [i \in 1..n |-> Pounds(12, 30 + ((7 * i) % 10))] } : n \in 0..MaxSnapshots }

NoAssessment ==
    [ total_landed_cost_gbp |-> 0, ebay_median_sale_price_gbp |-> 0, estimated_fees_gbp |-> 0,
      estimated_profit_gbp |-> 0, estimated_margin_percent |-> 0, confidence |-> "none" ]

PaIdle ==
    [ pc |-> "idle", item |-> [source_price_gbp |-> 0, shipping_to_uk_gbp |-> 0],
      sold_prices |-> <<>>, benchmark |-> 0, landed_cost |-> 0, fees |-> 0, profit |-> 0,
      returned |-> NoAssessment ]

\* assess_profitability_against_ebay(item): the snapshots are fetched
AssessCall(item, sold_prices) ==
    /\ pa.pc \in {"idle", "returned"}
    /\ pa' = [PaIdle EXCEPT !.pc = "fetched", !.item = item, !.sold_prices = sold_prices]
    /\ UNCHANGED <<fp, sm, ad, tl, fx, rn, cc>>

\* benchmark, landed_cost, fees, profit
AssessCompute ==
    /\ pa.pc = "fetched"
    /\ LET benchmark == Benchmark(pa.sold_prices, pa.item.source_price_gbp)
           landed_cost == pa.item.source_price_gbp + pa.item.shipping_to_uk_gbp
           fees == Fees(benchmark)
       IN  pa' = [pa EXCEPT !.pc = "computed", !.benchmark = benchmark,
                            !.landed_cost = landed_cost, !.fees = fees,
                            !.profit = benchmark - landed_cost - fees]
    /\ UNCHANGED <<fp, sm, ad, tl, fx, rn, cc>>

\* margin, confidence, and the rounded ProfitabilityAssessment
AssessReturn ==
    /\ pa.pc = "computed"
    /\ \E landed \in Round2(pa.landed_cost), median \in Round2(pa.benchmark),
          fees \in Round2(pa.fees), profit \in Round2(pa.profit),
          margin \in Margin(pa.profit, pa.landed_cost) :
          pa' = [pa EXCEPT !.pc = "returned",
                           !.returned = [ total_landed_cost_gbp |-> landed,
                                          ebay_median_sale_price_gbp |-> median,
                                          estimated_fees_gbp |-> fees,
                                          estimated_profit_gbp |-> profit,
                                          estimated_margin_percent |-> margin,
                                          confidence |-> Confidence(pa.sold_prices) ]]
    /\ UNCHANGED <<fp, sm, ad, tl, fx, rn, cc>>

NextAssess ==
    \/ \E item \in AssessedItems, sold_prices \in SoldPriceLists : AssessCall(item, sold_prices)
    \/ AssessCompute
    \/ AssessReturn

(***************************************************************************)
(* tools.py: find_candidate_items called from two threads.  The adapters   *)
(* of SOURCE_ADAPTERS and LAST_SOURCE_DIAGNOSTICS are module objects, so   *)
(* both calls see the same adapter.last_fetch_meta and the same map; a     *)
(* thread switch may fall between any two of the steps below.  Each thread *)
(* makes one call; the calls overlap or follow one another.                *)
(***************************************************************************)
Threads == {1, 2}

\* The marketplace names the concurrent calls are made with: two adapters,
\* and two spellings that resolve to one adapter.
ConcurrentNames ==
    { <<"H","o","b","b","y","L","i","n","k"," ","J","a","p","a","n">>,
      <<"N","i","n","-","N","i","n","-","G","a","m","e">>,
      <<" ","N","I","N","-","N","I","N","-","g","a","m","e"," ">>,
      <<"N","i","n","-","N","i","n">> }

\* How the adapter's fetch_candidates ends in the concurrent calls.
ConcurrentOutcomes ==
    { o \in AdapterOutcomes :
        \/ o.raises = "TypeError"
        \/ o.raises = "None" /\ o.items = <<>>
              /\ o.meta \in {FetchMeta(0, 0, 0), FetchMeta(1, 0, 0), FetchMeta(0, 2, 0)}
        \/ o.raises = "None" /\ o.items = <<ItemA, ItemADuplicate, ItemB>> }

NoCounts == [blocked_count |-> 0, parse_miss_count |-> 0, error_count |-> 0]

\* One find_candidate_items call in flight: its locals, what its own
\* adapter fetch accumulated, and what it wrote into the map.
CcNoCall ==
    [ pc |-> "idle", name |-> <<>>, adapter |-> "None", own_meta |-> EmptyDict,
      deduped |-> <<>>, meta |-> EmptyDict, status |-> "none", recorded |-> NoCounts,
      shared |-> FALSE, raised |-> "None" ]

CcIdle ==
    [ strict_live |-> FALSE,
      last_fetch_meta |-> [a \in {"hlj", "ninningame"} |-> EmptyDict],
      LAST_SOURCE_DIAGNOSTICS |-> EmptyDict,
      calls |-> [t \in Threads |-> CcNoCall] ]

CcInFlight(call) == call.pc \in {"fetching", "fetched", "counted"}

\* configure_source_runtime(strict_live=...) while no call is in flight
ConcurrentConfigure(strict_live) ==
    /\ \A t \in Threads : ~CcInFlight(cc.calls[t])
    /\ cc.strict_live # strict_live
    /\ cc' = [cc EXCEPT !.strict_live = strict_live]
    /\ UNCHANGED <<fp, sm, ad, tl, fx, rn, pa>>

\* adapter = _get_adapter_for_marketplace(marketplace); if adapter is None:
\* return []; otherwise adapter.fetch_candidates is entered
ConcurrentEnter(t, name) ==
    /\ cc.calls[t].pc = "idle"
    /\ LET adapter == GetAdapterForMarketplace(name)
           sharing == { u \in Threads \ {t} :
                          CcInFlight(cc.calls[u]) /\ cc.calls[u].adapter = adapter }
       IN  cc' = [cc EXCEPT !.calls =
                    [u \in Threads |->
                       IF u = t
                       THEN [CcNoCall EXCEPT
                               !.pc = IF adapter = "None" THEN "returned" ELSE "fetching",
                               !.name = name, !.adapter = adapter,
                               !.shared = adapter # "None" /\ sharing # {}]
                       ELSE IF adapter # "None" /\ u \in sharing
                       THEN [cc.calls[u] EXCEPT !.shared = TRUE]
                       ELSE cc.calls[u]]]
    /\ UNCHANGED <<fp, sm, ad, tl, fx, rn, pa>>

\* adapter.fetch_candidates ends.  On a return its last statement before
\* `return items` was self.last_fetch_meta = meta; an exception is caught
\* and recorded as a fetch error.
ConcurrentFetchEnds(t, outcome) ==
    /\ cc.calls[t].pc = "fetching"
    /\ LET call == cc.calls[t]
       IN  IF outcome.raises # "None"
           THEN IF AdapterFailureCaught(outcome.raises)
                THEN cc' = [cc EXCEPT
                              !.calls[t] = [call EXCEPT !.pc = "returned",
                                                        !.status = AdapterFailureStatus,
                                                        !.recorded = [NoCounts EXCEPT
                                                                        !.error_count = 1]],
                              !.LAST_SOURCE_DIAGNOSTICS =
                                  RecordSourceDiagnostics(cc.LAST_SOURCE_DIAGNOSTICS, call.name,
                                      AdapterFailureStatus, 0, 0, 0, 0, 1)]
                ELSE cc' = [cc EXCEPT !.calls[t] = [call EXCEPT !.pc = "raised",
                                                                !.raised = outcome.raises]]
           ELSE cc' = [cc EXCEPT
                         !.last_fetch_meta[call.adapter] = outcome.meta,
                         !.calls[t] = [call EXCEPT !.pc = "fetched",
                                                   !.own_meta = outcome.meta,
                                                   !.deduped = DedupeItemsByUrl(outcome.items)]]
    /\ UNCHANGED <<fp, sm, ad, tl, fx, rn, pa>>

\* meta = getattr(adapter, "last_fetch_meta", {}) or {}
ReadFetchMeta(last_fetch_meta, own_meta) == last_fetch_meta

\* live_count / fallback_count over the items, then the adapter's
\* last_fetch_meta is read
ConcurrentCount(t) ==
    /\ cc.calls[t].pc = "fetched"
    /\ LET call == cc.calls[t]
       IN  IF OriginCountRaises(call.deduped)
           THEN cc' = [cc EXCEPT !.calls[t] = [call EXCEPT !.pc = "raised",
                                                           !.raised = "AttributeError"]]
           ELSE cc' = [cc EXCEPT !.calls[t] =
                         [call EXCEPT !.pc = "counted",
                                      !.meta = ReadFetchMeta(cc.last_fetch_meta[call.adapter],
                                                             call.own_meta)]]
    /\ UNCHANGED <<fp, sm, ad, tl, fx, rn, pa>>

\* _resolve_source_status, _record_source_diagnostics, the strict-live test
\* and the return
ConcurrentRecord(t) ==
    /\ cc.calls[t].pc = "counted"
    /\ LET call == cc.calls[t]
           live_count == OriginCount(call.deduped, "live")
           fallback_count == OriginCount(call.deduped, "fallback")
           blocked_count == MetaGet(call.meta, "blocked")
           parse_miss_count == MetaGet(call.meta, "parse_misses")
           error_count == MetaGet(call.meta, "fetch_errors")
           status == ResolveSourceStatus(live_count, fallback_count, blocked_count,
                                         parse_miss_count, error_count)
           strict == StrictLiveViolated(cc.strict_live, StrictLiveRequired(call.adapter),
                                        live_count)
       IN  cc' = [cc EXCEPT
                    !.LAST_SOURCE_DIAGNOSTICS =
                        RecordSourceDiagnostics(cc.LAST_SOURCE_DIAGNOSTICS, call.name, status,
                            live_count, fallback_count, blocked_count, parse_miss_count,
                            error_count),
                    !.calls[t] = [call EXCEPT
                                    !.pc = IF strict THEN "raised" ELSE "returned",
                                    !.raised = IF strict THEN "RuntimeError" ELSE "None",
                                    !.status = status,
                                    !.recorded = [ blocked_count |-> blocked_count,
                                                   parse_miss_count |-> parse_miss_count,
                                                   error_count |-> error_count ]]]
    /\ UNCHANGED <<fp, sm, ad, tl, fx, rn, pa>>

NextConcurrent ==
    \/ \E strict_live \in BOOLEAN : ConcurrentConfigure(strict_live)
    \/ \E t \in Threads, name \in ConcurrentNames : ConcurrentEnter(t, name)
    \/ \E t \in Threads, outcome \in ConcurrentOutcomes : ConcurrentFetchEnds(t, outcome)
    \/ \E t \in Threads : ConcurrentCount(t)
    \/ \E t \in Threads : ConcurrentRecord(t)

Init ==
    /\ fp = FpIdle /\ sm = SmIdle /\ ad = AdIdle /\ tl = TlIdle /\ fx = FxIdle /\ rn = RnIdle
    /\ pa = PaIdle /\ cc = CcIdle

Next ==
    \/ \E r \in -1..MaxRetries, dbg \in BOOLEAN : FetchPageCall(r, dbg)
    \/ \E resp \in Responses : FetchPageAttempt(resp)
    \/ FetchPageExhausted

Spec == Init /\ [][Next]_vars

SpecSitemap == Init /\ [][NextSitemap]_vars

SpecAdapter == Init /\ [][NextAdapter]_vars

SpecTools == Init /\ [][NextTools]_vars

SpecStatus == Init /\ [][NextStatus]_vars

SpecRun == Init /\ [][NextRun]_vars

SpecFx == Init /\ [][NextFx]_vars

SpecFxTtl == Init /\ [][NextFxTtl]_vars

SpecFxRetry == Init /\ [][NextFxRetry]_vars

SpecAssess == Init /\ [][NextAssess]_vars

SpecConcurrent == Init /\ [][NextConcurrent]_vars

\* The crawl is sequential code: a step that can be taken is taken.
SpecSitemapFair == SpecSitemap /\ WF_vars(NextSitemap)

(***************************************************************************)
(* Properties of fetch_page (specification Spec).                          *)
(***************************************************************************)
\* The claims' own reading of "the decoded body contains a block indicator".
HasBlockIndicator(text) ==
    \E x \in BlockIndicators : \E i \in 1..Len(text) :
        /\ i + Len(x) - 1 <= Len(text)
        /\ Lower(SubSeq(text, i, i + Len(x) - 1)) = x

AttemptFailed(g) ==
    g.resp.kind = "error" \/ HasBlockIndicator(Decode(g.resp.body))

FpFinished == fp.pc \in {"returned", "raised"}

\* C1: for every retries >= 0 one fetch_page call issues at most retries+1
\* GETs, and an attempt that succeeds with a non-block body is the last GET
\* of the call, whose decoded body is what the call returns.
C1_BoundedAttemptsFirstSuccessReturned ==
    (fp.pc # "idle" /\ fp.retries >= 0) =>
        /\ Len(fp.gets) <= fp.retries + 1
        /\ \A i \in 1..Len(fp.gets) :
              ~AttemptFailed(fp.gets[i]) =>
                  /\ i = Len(fp.gets)
                  /\ fp.pc = "returned"
                  /\ fp.returned = Decode(fp.gets[i].resp.body)
        /\ fp.pc = "returned" =>
              /\ Len(fp.gets) >= 1
              /\ ~AttemptFailed(fp.gets[Len(fp.gets)])

\* C1 witness: the second of three allowed attempts succeeded and the call
\* returned without using the third.
C1_Witness ==
    /\ fp.pc = "returned"
    /\ fp.retries = 2
    /\ Len(fp.gets) = 2
    /\ fp.returned = <<"o","k">>

\* C2: when all retries+1 attempts failed, the finished call has raised the
\* error of the last attempt (SourceBlockedError for a block page, the
\* transport error otherwise) and has returned nothing.
C2_LastErrorRaised ==
    ( /\ fp.retries >= 0
      /\ FpFinished
      /\ Len(fp.gets) = fp.retries + 1
      /\ \A i \in 1..Len(fp.gets) : AttemptFailed(fp.gets[i]) )
    =>
    LET last == fp.gets[Len(fp.gets)]
    IN  /\ fp.pc = "raised"
        /\ fp.raised.attempt = fp.retries
        /\ fp.raised.type = IF last.resp.kind = "error" THEN last.resp.error
                            ELSE "SourceBlockedError"

\* C2 witness: three failures of different kinds, the last one a block page.
C2_Witness ==
    /\ fp.pc = "raised"
    /\ fp.retries = 2
    /\ Len(fp.gets) = 3
    /\ fp.gets[1].resp.kind = "error"
    /\ fp.gets[3].resp.kind = "body"
    /\ fp.raised.type = "SourceBlockedError"

\* C3: an attempt whose decoded body contains a block indicator (in any
\* letter case) ends in SourceBlockedError, is not what the call returns, and
\* is followed by a retry exactly when a transport failure would be: while
\* fewer than retries+1 attempts were made.
C3_BlockPageIsBlockedErrorAndRetried ==
    \A i \in 1..Len(fp.gets) :
        LET g == fp.gets[i]
        IN  (g.resp.kind = "body" /\ HasBlockIndicator(Decode(g.resp.body))) =>
              /\ g.error = "SourceBlockedError"
              /\ ~(fp.pc = "returned" /\ i = Len(fp.gets))
              /\ i <= fp.retries + 1
              /\ (i < fp.retries + 1) =>
                    \/ Len(fp.gets) > i
                    \/ (fp.pc = "loop" /\ fp.attempt = i /\ fp.attempt <= fp.retries)
              /\ (i = fp.retries + 1) =>
                    \/ (fp.pc = "loop" /\ fp.attempt = fp.retries + 1)
                    \/ (fp.pc = "raised" /\ fp.raised.type = "SourceBlockedError")

\* C3 witness: a mixed-case block page on the first attempt was followed by
\* a second attempt.
C3_Witness ==
    /\ Len(fp.gets) = 2
    /\ fp.gets[1].resp.kind = "body"
    /\ ~LooksLikeBlockPageCaseSensitive(fp.gets[1].resp.body)
    /\ fp.gets[1].error = "SourceBlockedError"
    /\ fp.gets[2].resp.kind = "error"

(***************************************************************************)
(* Properties of fetch_sitemap_product_urls (specification SpecSitemap,    *)
(* and SpecSitemapFair for termination).                                   *)
(***************************************************************************)
ContainsIgnoreCase(hay, needle) ==
    \E i \in 1..(Len(hay) + 1) :
        /\ i + Len(needle) - 1 <= Len(hay)
        /\ Lower(SubSeq(hay, i, i + Len(needle) - 1)) = Lower(needle)

\* C4: for every limit >= 1 the crawl returns at most limit product URLs.
\* (The code tests the limit only inside the loop over one document's
\* locations, so each further document of the same level can add one more.)
C4_AtMostLimitUrls ==
    sm.pc = "done" => Len(sm.urls) <= sm.limit

C5_LevelsAndNoRefetch ==
    /\ \A i \in 1..Len(sm.fetched) : sm.fetched[i].level \in 1..3
    /\ \A i, j \in 1..Len(sm.fetched) :
          i # j => sm.fetched[i].doc # sm.fetched[j].doc
    /\ Len(sm.fetched) >= 1 =>
          /\ sm.fetched[1].level = 1
          /\ EndsWith(sm.fetched[1].doc, SitemapPath)

\* C5: whatever documents the site serves (cyclic, ever deeper), the crawl
\* ends, fetches documents of at most 3 levels (the root sitemap.xml being
\* level 1) and fetches no document twice.
C5_TerminatesWithinThreeLevels ==
    []C5_LevelsAndNoRefetch /\ <>(sm.pc = "done")

\* C5 witness: the crawl ended after level 3 with deeper documents still
\* queued and room left under the limit.
C5_Witness ==
    /\ sm.pc = "done"
    /\ sm.depth = 3
    /\ sm.queue # <<>>
    /\ Len(sm.urls) < sm.limit
    /\ \E i \in 1..Len(sm.fetched) : sm.fetched[i].level = 3

C6_FailedFetchStep ==
    /\ Len(sm'.fetched) = Len(sm.fetched) + 1
    /\ sm'.fetched[Len(sm'.fetched)].error # "None"

C6_Step ==
    /\ C6_FailedFetchStep =>
          /\ sm'.raised = "None"
          /\ sm'.pc \in {"batch", "while"}
          /\ sm'.urls = sm.urls
          /\ sm'.seen_urls = sm.seen_urls
          /\ sm'.queue = sm.queue
          /\ sm'.current_batch = sm.current_batch
          /\ sm'.idx = sm.idx + 1
    /\ (sm.pc = "batch" /\ sm'.pc # "batch") =>
          /\ sm'.pc = "while"
          /\ \A k \in 1..Len(sm.current_batch) :
                \E i \in 1..Len(sm'.fetched) :
                    sm'.fetched[i].doc = sm.current_batch[k]

\* C6: a sitemap document whose fetch fails (SourceBlockedError or a
\* transport error) makes the crawl raise nothing and adds no URL and no
\* nested sitemap; the loop goes on to the next document of the same level,
\* and a level is left only when each of its documents has been attempted.
C6_FailedDocumentIsSkipped == [][C6_Step]_vars

\* C6 witness: in level 2 the first document failed and the next one of the
\* same level was fetched and contributed URLs.
C6_Witness ==
    /\ sm.pc = "done"
    /\ Len(sm.fetched) >= 3
    /\ sm.fetched[2].level = 2 /\ sm.fetched[2].error = "URLError"
    /\ sm.fetched[3].level = 2 /\ sm.fetched[3].error = "None"
    /\ sm.urls # <<>>

\* C7: every collected URL does not end in .xml, contains some hint
\* (ignoring case) when hints are given, contains no exclude (ignoring case)
\* and occurs once.
C7_ReturnedUrlsAreFiltered ==
    \A i \in 1..Len(sm.urls) :
        LET u == sm.urls[i]
        IN  /\ ~EndsWith(u, DotXml)
            /\ sm.url_hints # <<>> =>
                  \E h \in 1..Len(sm.url_hints) : ContainsIgnoreCase(u, sm.url_hints[h])
            /\ \A x \in 1..Len(sm.url_excludes) :
                  ~ContainsIgnoreCase(u, sm.url_excludes[x])
            /\ \A j \in 1..Len(sm.urls) : j # i => sm.urls[j] # u

\* C7 witness: with hints and excludes given, a finished crawl that met the
\* excluded location kept a URL matching a hint only when case is ignored.
C7_Witness ==
    /\ sm.pc = "done"
    /\ sm.url_hints # <<>>
    /\ sm.url_excludes # <<>>
    /\ Len(sm.fetched) >= 3
    /\ Len(sm.urls) = 2
    /\ \E i \in 1..Len(sm.urls) : sm.urls[i] = UrlP1

PassRank(pass) ==
    CASE pass = "search" -> 1
      [] pass = "sitemap" -> 2
      [] pass = "sitemap_page" -> 3
      [] pass = "fallback" -> 4

PassEntered(pass) == \E i \in 1..Len(ad.passes) : ad.passes[i].pass = pass

\* C8: within one fetch_candidates call the passes are entered in the order
\* search, sitemap crawl, sitemap pages, fallback, each at most once; the
\* sitemap crawl starts only after the last search query was fetched and
\* with fewer than limit items accumulated; the fallback pass only with
\* allow_fallback true and fewer than limit items accumulated.
C8_PassesInFixedOrderWithGuards ==
    /\ \A i, j \in 1..Len(ad.passes) :
          i < j => PassRank(ad.passes[i].pass) < PassRank(ad.passes[j].pass)
    /\ \A i \in 1..Len(ad.passes) :
          /\ ad.passes[i].pass = "sitemap" =>
                /\ ad.passes[i].items < ad.limit
                /\ ad.qi = Len(ad.queries) + 1
          /\ ad.passes[i].pass = "fallback" =>
                /\ ad.allow_fallback
                /\ ad.passes[i].items < ad.limit
                /\ ad.qi = Len(ad.queries) + 1
                /\ ad.si = Len(ad.sitemap_urls) + 1 \/ ad.sitemap_urls = <<>>

\* C8 witness: a call went through the search queries, the sitemap crawl,
\* its pages and then the fallback pass.
C8_Witness ==
    /\ ad.pc \in {"returned", "raised"}
    /\ ad.allow_fallback
    /\ Len(ad.passes) = 4
    /\ ad.passes[1].pass = "search"
    /\ ad.passes[2].pass = "sitemap"
    /\ ad.passes[3].pass = "sitemap_page"
    /\ ad.passes[4].pass = "fallback"

C10_NoFallbackWithoutFlag ==
    (ad.pc # "idle" /\ ~ad.allow_fallback) =>
        /\ ~PassEntered("fallback")
        /\ \A i \in 1..Len(ad.items) : ad.items[i].data_origin # "fallback"
        /\ ad.meta.fallback_items = 0
        /\ ad.pc = "returned" =>
              /\ ad.last_fetch_meta = ad.meta
              /\ ad.last_fetch_meta.fallback_items = 0

\* C10 witness: with allow_fallback false and room for an item, a call
\* whose search and sitemap passes produced nothing returned no item.
C10_Witness ==
    /\ ad.pc = "returned"
    /\ ~ad.allow_fallback
    /\ ad.limit >= 1
    /\ PassEntered("search") /\ PassEntered("sitemap_page")
    /\ ad.items = <<>>
    /\ ad.last_fetch_meta.fallback_items = 0

\* The claims' own reading of "passes the trading-card keyword filter".
IsCardTitle(title, a) ==
    \E term \in BASE_TRADING_CARD_TERMS \cup ExtraCardTerms(a) : Contains(Lower(title), term)

FallbackUrls(a) == { FallbackCatalog(a)[k].url : k \in 1..Len(FallbackCatalog(a)) }

\* C11: every row that passed the filters (its URL was put in the call's
\* seen set) became a candidate, and every candidate carries site_name equal
\* to the descriptor's name, source_id equal to its key, and data_origin
\* "fallback" when it comes from the fallback catalog and "live" otherwise.
C11_CandidatesCarryProvenance ==
    /\ \A u \in ad.seen : \E i \in 1..Len(ad.items) : ad.items[i].url = u
    /\ \A i \in 1..Len(ad.items) :
          /\ ad.items[i].site_name = DescriptorName(ad.adapter)
          /\ ad.items[i].source_id = ad.adapter
          /\ ad.items[i].data_origin =
                IF ad.items[i].url \in FallbackUrls(ad.adapter) THEN "fallback" ELSE "live"

\* C12: no failure of a page fetch made in the search or the sitemap pass
\* leaves fetch_candidates as an exception, and the passes after the search
\* pass are reached only with every query attempted.
C12_FetchFailuresAreOnlyCounted ==
    /\ ad.error \notin {"SourceBlockedError", "URLError"}
    /\ ad.pc \in {"sitemap_gate", "sitemap_pages", "fallback_gate"} =>
          ad.qi = Len(ad.queries) + 1

MatchesNoAdapter(name) ==
    \A i \in 1..Len(SOURCE_ADAPTERS) :
        Lower(Strip(name)) # Lower(DescriptorNameText(SOURCE_ADAPTERS[i]))

C14_Step ==
    (tl'.op = "find" /\ MatchesNoAdapter(tl'.call.name)) =>
        /\ tl'.call.returned = <<>>
        /\ tl'.call.raised = "None"
        /\ ~tl'.call.invoked
        /\ tl'.LAST_SOURCE_DIAGNOSTICS = tl.LAST_SOURCE_DIAGNOSTICS

\* C14: a find_candidate_items call for a marketplace whose trimmed,
\* lower-cased name is no adapter's lower-cased name returns the empty list,
\* raises nothing, invokes no adapter and leaves the diagnostics map as it
\* was.
C14_UnknownMarketplaceIsEmptyAndSilent == [][C14_Step]_vars

\* C14 witness: with diagnostics recorded for a known marketplace, a call
\* for a name that only begins an adapter's name returned the empty list.
C14_Witness ==
    /\ tl.op = "find"
    /\ tl.call.name = <<"N","i","n","-","N","i","n">>
    /\ tl.call.returned = <<>> /\ tl.call.raised = "None"
    /\ tl.LAST_SOURCE_DIAGNOSTICS # EmptyDict

\* C15: when the adapter's fetch_candidates raised, find_candidate_items
\* raised nothing, returned the empty list and recorded for the marketplace
\* the entry with status fetch_error, error_count 1 and every other counter 0.
C15_AdapterFailureIsRecorded ==
    (tl.op = "find" /\ tl.call.outcome = "raised") =>
        /\ tl.call.raised = "None"
        /\ tl.call.returned = <<>>
        /\ tl.call.name \in DOMAIN tl.LAST_SOURCE_DIAGNOSTICS
        /\ tl.LAST_SOURCE_DIAGNOSTICS[tl.call.name] =
              [ source_name |-> tl.call.name, status |-> "fetch_error",
                live_count |-> 0, fallback_count |-> 0, blocked_count |-> 0,
                parse_miss_count |-> 0, error_count |-> 1 ]

\* C15 witness: under strict-live mode the adapter raised TypeError and the
\* call for a name written in another case returned the empty list.
C15_Witness ==
    /\ tl.op = "find"
    /\ tl.call.outcome = "raised" /\ tl.call.adapter_error = "TypeError"
    /\ tl.call.adapter = "ninningame"
    /\ tl.SOURCE_RUNTIME.strict_live
    /\ tl.call.returned = <<>> /\ tl.call.raised = "None"

UrlKey(item) == Lower(Strip(item.url))

\* The first item of each distinct non-empty key, in the adapter's order.
FirstOccurrences(items) ==
    { i \in 1..Len(items) :
        /\ UrlKey(items[i]) # <<>>
        /\ \A j \in 1..(i - 1) : UrlKey(items[j]) # UrlKey(items[i]) }

\* The strict-live failure, which claims C18 and C19 are about.
StrictLiveApplies ==
    /\ tl.SOURCE_RUNTIME.strict_live
    /\ tl.call.adapter # "None"
    /\ StrictLiveRequired(tl.call.adapter)

LiveItemsOf(items) ==
    { i \in 1..Len(items) :
        "data_origin" \in DOMAIN items[i] /\ items[i].data_origin = "live" }

\* C16: when the adapter returned a list and the strict-live failure does
\* not apply, find_candidate_items returns a list without two items of the
\* same trimmed, lower-cased URL, holding for each such URL the first item
\* of the adapter's result and nothing else, in any order.  (Items whose
\* trimmed URL is empty are not asked for: _dedupe_items_by_url leaves them
\* out.)
C16_DedupedFirstOccurrences ==
    (tl.op = "find" /\ tl.call.outcome = "returned" /\ ~StrictLiveApplies) =>
        /\ tl.call.raised = "None"
        /\ \A i, j \in 1..Len(tl.call.returned) :
              i # j => UrlKey(tl.call.returned[i]) # UrlKey(tl.call.returned[j])
        /\ \A i \in FirstOccurrences(tl.call.raw_items) :
              \E k \in 1..Len(tl.call.returned) : tl.call.returned[k] = tl.call.raw_items[i]
        /\ \A k \in 1..Len(tl.call.returned) :
              \E i \in FirstOccurrences(tl.call.raw_items) :
                  tl.call.returned[k] = tl.call.raw_items[i]

\* The claims' own reading of the precedence
\* live > blocked > fetch_error > parse_failed > fallback > no_data.
StatusByPrecedence(r) ==
    LET counters == << <<"live", r.live_count>>, <<"blocked", r.blocked_count>>,
                       <<"fetch_error", r.error_count>>,
                       <<"parse_failed", r.parse_miss_count>>,
                       <<"fallback", r.fallback_count>> >>
        positive == { i \in 1..Len(counters) : counters[i][2] > 0 }
    IN  IF positive = {} THEN "no_data"
        ELSE counters[CHOOSE i \in positive : \A j \in positive : i <= j][1]

\* C17: the status resolved from five counters is the first of live,
\* blocked, fetch_error, parse_failed, fallback whose counter is positive,
\* and no_data when all are zero.
C17_StatusFollowsPrecedence ==
    tl.op = "resolve" => tl.resolved.status = StatusByPrecedence(tl.resolved)

\* C17 witness: with every counter but live positive the status is blocked.
C17_Witness ==
    /\ tl.op = "resolve"
    /\ tl.resolved.live_count = 0
    /\ tl.resolved.blocked_count > 0 /\ tl.resolved.error_count > 0
    /\ tl.resolved.parse_miss_count > 0 /\ tl.resolved.fallback_count > 0
    /\ tl.resolved.status = "blocked"

\* C18: a find_candidate_items call raises exactly when strict-live mode is
\* enabled, the adapter's descriptor requires live data and the adapter
\* returned a result with zero live items; otherwise it returns.
C18_RaisesExactlyOnStrictLiveViolation ==
    tl.op = "find" =>
        (tl.call.raised # "None" <=>
            /\ StrictLiveApplies
            /\ tl.call.outcome = "returned"
            /\ LiveItemsOf(tl.call.raw_items) = {})

\* C19: with strict-live mode enabled and a known marketplace whose
\* descriptor requires live data, find_candidate_items returns normally
\* only with at least one live item in the returned list.
C19_StrictLiveNeverReturnsWithoutLiveItem ==
    (tl.op = "find" /\ StrictLiveApplies /\ tl.call.raised = "None") =>
        LiveItemsOf(tl.call.returned) # {}

\* C20: every entry of the diagnostics map has the status that the
\* precedence yields for the entry's own five counters.
C20_StoredStatusMatchesCounters ==
    \A n \in DOMAIN tl.LAST_SOURCE_DIAGNOSTICS :
        tl.LAST_SOURCE_DIAGNOSTICS[n].status =
            StatusByPrecedence(tl.LAST_SOURCE_DIAGNOSTICS[n])

\* C20 witness: the map holds an entry written after an adapter failure and
\* an entry written after a fetch that returned with blocks and parse misses.
C20_Witness ==
    /\ \E n \in DOMAIN tl.LAST_SOURCE_DIAGNOSTICS :
          /\ tl.LAST_SOURCE_DIAGNOSTICS[n].status = "blocked"
          /\ tl.LAST_SOURCE_DIAGNOSTICS[n].parse_miss_count > 0
    /\ \E n \in DOMAIN tl.LAST_SOURCE_DIAGNOSTICS :
          /\ n = tl.call.name
          /\ tl.call.outcome = "raised"
          /\ tl.LAST_SOURCE_DIAGNOSTICS[n].status = "fetch_error"

C21_Step ==
    /\ tl'.op = "reset" => tl'.LAST_SOURCE_DIAGNOSTICS = EmptyDict
    /\ (tl'.op = "find" /\ ~MatchesNoAdapter(tl'.call.name)) =>
          /\ DOMAIN tl'.LAST_SOURCE_DIAGNOSTICS \subseteq
                DOMAIN tl.LAST_SOURCE_DIAGNOSTICS \cup {tl'.call.name}
          /\ \A n \in DOMAIN tl.LAST_SOURCE_DIAGNOSTICS \ {tl'.call.name} :
                /\ n \in DOMAIN tl'.LAST_SOURCE_DIAGNOSTICS
                /\ tl'.LAST_SOURCE_DIAGNOSTICS[n] = tl.LAST_SOURCE_DIAGNOSTICS[n]

\* C21: a reset_source_diagnostics step leaves the diagnostics map empty,
\* and a find_candidate_items step for a known marketplace adds no key but
\* the marketplace's name and leaves the entry of every other name as it was.
C21_OnlyOwnEntryWritten == [][C21_Step]_vars

\* C21 witness: a call for one marketplace name recorded its entry while the
\* map still holds, with another status, the entry of another name.
C21_Witness ==
    /\ tl.op = "find"
    /\ tl.call.name \in DOMAIN tl.LAST_SOURCE_DIAGNOSTICS
    /\ tl.call.outcome = "returned" /\ tl.call.raised = "None"
    /\ \E n \in DOMAIN tl.LAST_SOURCE_DIAGNOSTICS :
          /\ n # tl.call.name
          /\ tl.LAST_SOURCE_DIAGNOSTICS[n].status = "fetch_error"
          /\ tl.LAST_SOURCE_DIAGNOSTICS[tl.call.name].status = "no_data"

(***************************************************************************)
(* Properties of run_local_dry_run (specification SpecRun).                *)
(***************************************************************************)
RunEnded == rn.pc \in {"done", "raised"}

ConvertedAsClaimed(table, amount, currency) ==
    LET keys == IF currency.set
                THEN { k \in DOMAIN table : Lower(k) = Lower(currency.value) }
                ELSE {}
    IN  IF keys = {} THEN amount
        ELSE Times(amount, table[CHOOSE k \in keys : TRUE])

C23_Step ==
    fx'.conv # fx.conv =>
        fx'.conv.result =
            ConvertedAsClaimed(fx.CURRENCY_TO_GBP, fx'.conv.amount, fx'.conv.currency)

\* C23: every currency_to_gbp call returns amount times the rate the table
\* holds for the code, matched without regard to letter case, and the
\* amount itself when the code is None, empty or not a key of the table.
C23_ConversionUsesTableRate == [][C23_Step]_vars

\* C23 witness: after a refresh, 10.0 of "jpy" was converted with the
\* refreshed rate 0.0052.
C23_Witness ==
    /\ fx.conv.done
    /\ fx.conv.currency = SomeText(<<"j","p","y">>)
    /\ fx.conv.amount = Num(100000)
    /\ fx.CURRENCY_TO_GBP[JPY] = Num(52)
    /\ fx.conv.result = Num(520)

FxCallReturned == fx.call.state = "returned"

FxTableUntouched == fx.CURRENCY_TO_GBP = fx.call.table_before

\* C24: a refresh_currency_rates call whose request failed (network error,
\* timeout, body that is not JSON) raised nothing, returned False and left
\* the table as it was before the call, forced or not.
C24_FailedRequestKeepsTable ==
    (fx.call.state \in {"returned", "raised"}
       /\ fx.call.response \in {"URLError", "TimeoutError", "JSONDecodeError"}) =>
        /\ fx.call.state = "returned"
        /\ fx.call.returned = "False"
        /\ FxTableUntouched

\* C24 witness: a forced refresh that timed out, after an earlier refresh
\* had changed the table.
C24_Witness ==
    /\ FxCallReturned
    /\ fx.call.force
    /\ fx.call.response = "TimeoutError"
    /\ fx.call.returned = "False"
    /\ fx.CURRENCY_TO_GBP # DEFAULT_CURRENCY_TO_GBP

\* a rate float() rejects or that is <= 0
RateRejected(raw) == raw.k = "text" \/ (raw.k = "num" /\ raw.v <= 0)

\* C25: a refresh whose payload carried a non-positive or non-numeric rate
\* for some currency returned False and left the whole table as it was
\* before the call.  (The code keeps the previous rate of that currency
\* only, stores the other rates of the payload and returns True.)
C25_InvalidRateKeepsWholeTable ==
    (FxCallReturned /\ fx.call.response = "rates"
       /\ \E c \in Range(Symbols) : RateRejected(fx.rates[c])) =>
        /\ fx.call.returned = "False"
        /\ FxTableUntouched

\* C26: a refresh whose payload was malformed (not an object, an object
\* without rates, with rates that are no mapping or with an empty rates
\* mapping) returned False and left the table as it was before the call.
\* (The code returns True and stamps the refresh time for all of these but a
\* rates value that is no mapping.)
C26_MalformedPayloadKeepsTable ==
    (FxCallReturned
       /\ \/ fx.call.response \in {"not_object", "no_rates", "rates_not_mapping"}
          \/ (fx.call.response = "rates" /\ fx.rates = NoRates)) =>
        /\ fx.call.returned = "False"
        /\ FxTableUntouched

\* C28: the table always holds a strictly positive rate for GBP, EUR, USD
\* and JPY, and the GBP rate is 1.0.  (A rate of Infinity or NaN in the
\* payload passes the <= 0 test and is stored as 0.0 or nan.)
C28_RatesStayPositive ==
    /\ \A c \in {GBP, EUR, USD, JPY} :
          /\ c \in DOMAIN fx.CURRENCY_TO_GBP
          /\ fx.CURRENCY_TO_GBP[c].k = "num"
          /\ fx.CURRENCY_TO_GBP[c].v > 0
    /\ fx.CURRENCY_TO_GBP[GBP] = Num(10000)

\* The table a refresh with this payload leaves, from the table before it.
TableAfterRefresh(before, rates) ==
    [ c \in DOMAIN before |->
        IF c = GBP THEN Num(10000)
        ELSE IF rates[c].k \in {"absent", "text"} \/ NonPositive(rates[c]) THEN before[c]
        ELSE Invert(rates[c]) ]

\* C29: at every moment of a refresh the table a conversion reads is, as a
\* whole, the table of before the refresh or the table the refresh leaves;
\* it is the latter only from the one step on that publishes it.
C29_TableIsOldOrNewAsAWhole ==
    \/ fx.CURRENCY_TO_GBP = fx.call.table_before
    \/ /\ fx.pc = "stamp" \/ (fx.pc = "idle" /\ fx.call.returned = "True")
       /\ fx.CURRENCY_TO_GBP = TableAfterRefresh(fx.call.table_before, fx.rates)

\* C29 witness: while a refresh had computed the new JPY rate 0.0052 but not
\* yet published it, a conversion of 10.0 "jpy" used the old rate 0.0053.
C29_Witness ==
    /\ fx.pc = "loop"
    /\ fx.si = 3
    /\ fx.updated[JPY] = Num(52)
    /\ fx.conv.during_refresh
    /\ fx.conv.currency = SomeText(<<"j","p","y">>)
    /\ fx.conv.amount = Num(100000)
    /\ fx.conv.result = Num(530)

\* The claims' own reading of the TTL: max(300, configured seconds), 21600
\* when nothing or no integer is configured.
TtlAsClaimed(configured) ==
    IF configured.set /\ IsIntText(Strip(configured.value))
    THEN Max(300, IntOf(Strip(configured.value)))
    ELSE 21600

\* a call that has to contact the remote source: forced, or no refresh
\* succeeded yet, or TTL seconds or more passed since the last one
RefreshDueAsClaimed ==
    \/ fx.call.force
    \/ fx.call.last_refresh_before = 0
    \/ fx.call.now_ts - fx.call.last_refresh_before >=
          TtlAsClaimed(fx.call.env.FX_REFRESH_SECONDS)

FxCallSkipped ==
    /\ fx.call.state = "returned"
    /\ fx.call.returned = "False"
    /\ ~fx.call.contacted
    /\ FxTableUntouched

\* C27 as claimed: a call that is not due returned False without contacting
\* the remote source and without changing the table, and a call that is due
\* contacted the remote source.  (With ENABLE_LIVE_FX_RATES set to a value
\* that is not truthy no call contacts it, forced or not.)
C27_TtlDecidesContact ==
    fx.call.state # "none" =>
        IF RefreshDueAsClaimed THEN fx.call.contacted ELSE FxCallSkipped

\* C27 as amended: the same for calls made with live FX rates enabled
\* (ENABLE_LIVE_FX_RATES unset or truthy); a call made with them disabled
\* returned False without contacting the remote source or changing the table.
C27_TtlDecidesContactWhenEnabled ==
    fx.call.state # "none" =>
        IF EnvTruthy(fx.call.env.ENABLE_LIVE_FX_RATES, TRUE) /\ RefreshDueAsClaimed
        THEN fx.call.contacted
        ELSE FxCallSkipped

\* C27 witness: with FX_REFRESH_SECONDS=60 a non-forced call made 299
\* seconds after a successful refresh was skipped.
C27_Witness ==
    /\ FxCallSkipped
    /\ ~fx.call.force
    /\ EnvTruthy(fx.call.env.ENABLE_LIVE_FX_RATES, TRUE)
    /\ fx.call.env.FX_REFRESH_SECONDS = SomeText(<<"6","0">>)
    /\ fx.call.last_refresh_before # 0
    /\ fx.call.now_ts - fx.call.last_refresh_before = 299

\* ---- C30 ----
SeedConfigured == Strip(Getenv(ad.SOURCE_RANDOM_SEED, <<>>)) # <<>>

\* the call is over, by return or by an exception
AdapterCallOver == ad.pc \in {"returned", "raised"}

\* the search queries the call has requested so far, in order
RequestedQueries == SubSeq(ad.queries, 1, ad.qi - 1)

IsPermutationOf(s, t) ==
    /\ Len(s) = Len(t)
    /\ \E f \in [1..Len(s) -> 1..Len(t)] :
          /\ \A i, j \in 1..Len(s) : i # j => f[i] # f[j]
          /\ \A i \in 1..Len(s) : s[i] = t[f[i]]

\* With a seed configured any other call of the adapter orders the queries
\* (and the sitemap URLs) as this one did, and the order is a permutation of
\* the adapter's queries.
SeededOrderReproducible ==
    (ad.pc # "idle" /\ SeedConfigured) =>
        /\ \A other \in QueryOrders(ad.adapter, ad.SOURCE_RANDOM_SEED) : other = ad.queries
        /\ IsPermutationOf(ad.queries, Queries(ad.adapter))
        /\ ad.pc = "sitemap_pages" =>
              \A urls \in SitemapUrlLists :
                  IsPermutationOf(ad.sitemap_urls, urls) =>
                      \A other \in SitemapOrders(ad.adapter, urls, ad.SOURCE_RANDOM_SEED) :
                          other = ad.sitemap_urls

\* C30: with a seed configured two independent shuffles of the same input
\* for the same source key and purpose give the same ordering, a permutation
\* of the input; so a call of an adapter requests its search queries in the
\* order any other call does, and once the call is over with the limit not
\* reached it has requested each query once.
C30_SeededCallsRequestEveryQueryInTheSameOrder ==
    /\ SeededOrderReproducible
    /\ (SeedConfigured /\ AdapterCallOver /\ Len(ad.items) < ad.limit) =>
          RequestedQueries = ad.queries

\* the same, for calls that return
C30_SeededReturningCalls ==
    /\ SeededOrderReproducible
    /\ (SeedConfigured /\ ad.pc = "returned" /\ Len(ad.items) < ad.limit) =>
          RequestedQueries = ad.queries

C30_Witness ==
    /\ SeedConfigured
    /\ ad.adapter = "surugaya"
    /\ ad.pc = "returned"
    /\ Len(ad.items) < ad.limit
    /\ ad.queries # Queries("surugaya")

\* ---- C31 ----
\* C31: the assessment's confidence is high with 8 or more comparable
\* prices, medium with 1 to 7 and low with none, for 0 to 20 comparables.
C31_ConfidenceByNumberOfComparables ==
    pa.pc = "returned" =>
        LET n == Len(pa.sold_prices)
        IN  /\ n \in 0..20
            /\ n >= 8 => pa.returned.confidence = "high"
            /\ n \in 1..7 => pa.returned.confidence = "medium"
            /\ n = 0 => pa.returned.confidence = "low"

C31_Witness ==
    /\ pa.pc = "returned"
    /\ Len(pa.sold_prices) = 8
    /\ pa.returned.confidence = "high"

\* ---- C32 ----
\* x is a k-th smallest of the prices
KthSmallest(x, k, prices) ==
    /\ Cardinality({ i \in 1..Len(prices) : prices[i] < x }) < k
    /\ k <= Cardinality({ i \in 1..Len(prices) : prices[i] <= x })

\* lo and hi are the two middle prices (one and the same for an odd number)
MiddlePair(lo, hi, prices) ==
    LET n == Len(prices)
    IN  IF n % 2 = 1
        THEN lo = hi /\ KthSmallest(lo, (n + 1) \div 2, prices)
        ELSE KthSmallest(lo, n \div 2, prices) /\ KthSmallest(hi, n \div 2 + 1, prices)

\* r is the amount x200 / 200 rounded to 2 decimals
RoundedTo2(r, x200) ==
    /\ r % (FloatUnit \div 100) = 0
    /\ Abs(200 * r - x200) <= FloatUnit

\* r is the percentage 100 * p200 / l200 rounded to 2 decimals
RoundedPercent(r, p200, l200) ==
    LET g == Gcd(Abs(p200), l200)
        p == p200 \div g
        l == l200 \div g
        hundredths == r \div (FloatUnit \div 100)
    IN  /\ r % (FloatUnit \div 100) = 0
        /\ Abs(2 * hundredths * l - 20000 * p) <= l

\* the returned assessment is the claimed one for a benchmark of b200 / 200
AssessedAsClaimed(b200) ==
    LET l200 == 200 * (pa.item.source_price_gbp + pa.item.shipping_to_uk_gbp)
        f200 == (b200 * EBAY_FINAL_VALUE_FEE_RATE) \div FloatUnit + 200 * EBAY_PER_ORDER_FEE_GBP
        p200 == b200 - l200 - f200
    IN  /\ RoundedTo2(pa.returned.total_landed_cost_gbp, l200)
        /\ RoundedTo2(pa.returned.ebay_median_sale_price_gbp, b200)
        /\ RoundedTo2(pa.returned.estimated_fees_gbp, f200)
        /\ RoundedTo2(pa.returned.estimated_profit_gbp, p200)
        /\ IF l200 = 0 THEN pa.returned.estimated_margin_percent = 0
           ELSE RoundedPercent(pa.returned.estimated_margin_percent, p200, l200)

\* C32: landed cost = source price + shipping, benchmark = median of the
\* comparable prices (source price x 1.35 without any), fees = benchmark x
\* fee rate + per-order fee, profit = benchmark - landed cost - fees, margin
\* = profit / landed cost x 100 (0 when the landed cost is 0), each rounded
\* to 2 decimals; 100, 20 and no comparables give 120.00, 135.00, 0.00,
\* 15.00 and 12.50.
C32_AssessmentArithmetic ==
    pa.pc = "returned" =>
        /\ IF pa.sold_prices = <<>>
           THEN AssessedAsClaimed(270 * pa.item.source_price_gbp)
           ELSE \E lo, hi \in Range(pa.sold_prices) :
                   MiddlePair(lo, hi, pa.sold_prices) /\ AssessedAsClaimed(100 * (lo + hi))
        /\ ( /\ pa.item.source_price_gbp = Pounds(100, 0)
             /\ pa.item.shipping_to_uk_gbp = Pounds(20, 0)
             /\ pa.sold_prices = <<>> ) =>
               /\ pa.returned.total_landed_cost_gbp = Pounds(120, 0)
               /\ pa.returned.ebay_median_sale_price_gbp = Pounds(135, 0)
               /\ pa.returned.estimated_fees_gbp = 0
               /\ pa.returned.estimated_profit_gbp = Pounds(15, 0)
               /\ pa.returned.estimated_margin_percent = Pounds(12, 50)

C32_Witness ==
    /\ pa.pc = "returned"
    /\ pa.item.source_price_gbp = Pounds(100, 0)
    /\ pa.item.shipping_to_uk_gbp = Pounds(20, 0)
    /\ pa.sold_prices = <<>>
    /\ pa.returned.estimated_margin_percent = Pounds(12, 50)

\* ---- C33 ----
\* 0.3 x 2^k seconds in tenths of a second, for k = 0, 1, 2, 3
ClaimedWaitTenths == <<3, 6, 12, 24>>

\* the attempts made so far that failed
FailedAttempts == { fp.gets[i].attempt : i \in { j \in 1..Len(fp.gets) : fp.gets[j].error # "None" } }

\* C33: after failed attempt k < retries the call waits 0.3 x 2^k seconds
\* before attempt k+1, once per failed attempt except the last one, and
\* never after a successful attempt or after the final failure.
C33_BackoffBetweenAttempts ==
    fp.pc # "idle" =>
        /\ Len(fp.sleeps) = Cardinality({ k \in FailedAttempts : k < fp.retries })
        /\ \A j \in 1..Len(fp.sleeps) :
              /\ fp.sleeps[j].after = j - 1
              /\ fp.sleeps[j].after \in FailedAttempts
              /\ fp.sleeps[j].after < fp.retries
              /\ fp.sleeps[j].tenths = ClaimedWaitTenths[j]
        /\ \A i \in 1..Len(fp.gets) :
              fp.gets[i].attempt > 0 =>
                  \E j \in 1..Len(fp.sleeps) : fp.sleeps[j].after = fp.gets[i].attempt - 1

C33_Witness ==
    /\ fp.pc = "raised"
    /\ fp.retries = 2
    /\ Len(fp.gets) = 3
    /\ Len(fp.sleeps) = 2
    /\ fp.sleeps[2].tenths = 6

\* ---- C34 ----
\* the response of the attempt a snapshot was written for
SnapshotResponse(snapshot) ==
    LET i == CHOOSE j \in 1..Len(fp.gets) : fp.gets[j].attempt = snapshot.attempt
    IN  fp.gets[i]

\* C34 as stated: a snapshot is written only with debug capture enabled and
\* only for the attempt whose body is returned to the caller; a failed
\* attempt (transport error or block page) writes none.
C34_SnapshotOnlyForReturnedBody ==
    /\ ~fp.DEBUG_ENABLED => fp.snapshots = <<>>
    /\ \A i \in 1..Len(fp.snapshots) :
          /\ fp.DEBUG_ENABLED
          /\ SnapshotResponse(fp.snapshots[i]).error = "None"
          /\ fp.pc = "returned" /\ fp.returned = fp.snapshots[i].content

\* C34 amended: a snapshot is written only with debug capture enabled and
\* only for an attempt whose response body was read, one for each: the
\* attempt whose body is returned and an attempt that fails on a block
\* page; a transport error writes none.
C34_SnapshotForEveryBodyRead ==
    /\ ~fp.DEBUG_ENABLED => fp.snapshots = <<>>
    /\ \A i \in 1..Len(fp.snapshots) :
          /\ fp.DEBUG_ENABLED
          /\ SnapshotResponse(fp.snapshots[i]).resp.kind = "body"
          /\ SnapshotResponse(fp.snapshots[i]).error \in {"None", "SourceBlockedError"}
          /\ fp.snapshots[i].content = Decode(SnapshotResponse(fp.snapshots[i]).resp.body)
    /\ fp.DEBUG_ENABLED =>
          \A j \in 1..Len(fp.gets) :
              Cardinality({ i \in 1..Len(fp.snapshots) :
                              fp.snapshots[i].attempt = fp.gets[j].attempt })
                  = IF fp.gets[j].resp.kind = "body" THEN 1 ELSE 0

C34_Witness ==
    /\ fp.DEBUG_ENABLED
    /\ fp.pc = "returned"
    /\ Len(fp.gets) = 2
    /\ fp.gets[1].error = "SourceBlockedError"
    /\ Len(fp.snapshots) = 2

\* ---- C35 ----
Counters(meta) == <<meta.blocked, meta.fetch_errors, meta.parse_misses>>

\* the counters after the step are the ones before it plus the increments
CountersIncrementedBy(blocked, fetch_errors, parse_misses) ==
    Counters(ad'.meta) = << ad.meta.blocked + blocked, ad.meta.fetch_errors + fetch_errors,
                            ad.meta.parse_misses + parse_misses >>

\* one fetch that ended in `error`, or succeeded with or without rows
FetchCountedAsClaimed(error, no_rows) ==
    IF error = "SourceBlockedError" THEN CountersIncrementedBy(1, 0, 0)
    ELSE IF error # "None" THEN CountersIncrementedBy(0, 1, 0)
    ELSE IF no_rows THEN CountersIncrementedBy(0, 0, 1)
    ELSE CountersIncrementedBy(0, 0, 0)

C35_Step ==
    /\ ad.pc = "idle" => Counters(ad'.meta) = <<0, 0, 0>>
    /\ ad.pc # "idle" =>
          /\ ad'.meta.blocked >= ad.meta.blocked
          /\ ad'.meta.fetch_errors >= ad.meta.fetch_errors
          /\ ad'.meta.parse_misses >= ad.meta.parse_misses
    /\ ad.pc = "search" =>
          \A res \in PageFetchResults, live \in LivePriceResults :
              AdapterSearch(res, live) =>
                  FetchCountedAsClaimed(res.error, ExtractRows(res.page) = <<>>)
    /\ (ad.pc = "sitemap_pages" /\ ad.sitemap_urls[ad.si] \notin ad.seen) =>
          \A res \in PageFetchResults :
              AdapterSitemapPage(res) =>
                  FetchCountedAsClaimed(res.error,
                      ExtractFirstProductFromPage(ad.sitemap_urls[ad.si], res.page) = <<>>)
    /\ (ad.pc \notin {"idle", "search", "sitemap_pages"}) =>
          Counters(ad'.meta) = Counters(ad.meta)

\* the same, for the steps that do not end the call with an exception
C35_CountersFollowFetchOutcomesUnlessRaised == [][ad'.pc # "raised" => C35_Step]_vars

\* C35: within one fetch_candidates call blocked, fetch_errors and
\* parse_misses start at 0 and never decrease, and each search-page or
\* sitemap-page fetch increments at most one of them: blocked on a
\* BlockedError, fetch_errors on any other error, parse_misses on a success
\* with nothing extracted, none when rows were extracted.
C35_CountersFollowFetchOutcomes == [][C35_Step]_vars

C35_Witness ==
    /\ ad.pc = "returned"
    /\ ad.meta.blocked >= 1
    /\ ad.meta.fetch_errors >= 1
    /\ ad.meta.parse_misses >= 1

\* ---- C36 ----
\* the fetches before fetch j whose document named the document of fetch j
\* as a nested sitemap and queued it
Finders(j) ==
    { i \in 1..(j - 1) :
        \E k \in 1..Len(sm.fetched[i].queued) :
            sm.fetched[i].queued[k] = sm.fetched[j].doc }

\* the fetch that found the document of fetch j first (0 for the root)
FirstFinder(j) ==
    IF Finders(j) = {} THEN 0
    ELSE CHOOSE i \in Finders(j) : \A m \in Finders(j) : i <= m

RECURSIVE BreadthLevel(_)
\* the breadth level of a fetched document: 1 for the root, and one more
\* than the level of the document in which it was first found
BreadthLevel(j) ==
    IF FirstFinder(j) = 0 THEN 1 ELSE BreadthLevel(FirstFinder(j)) + 1

\* C36: fetch_sitemap_product_urls goes breadth-first by level: the
\* documents are fetched in the order of their breadth levels (all the
\* fetched documents of level k before any of level k+1), and a nested
\* .xml location found while level k is processed is fetched in the loop's
\* level k+1, never in level k.
C36_BreadthFirstByLevel ==
    /\ \A i, j \in 1..Len(sm.fetched) :
          i < j => BreadthLevel(i) <= BreadthLevel(j)
    /\ \A j \in 1..Len(sm.fetched) :
          /\ sm.fetched[j].level = BreadthLevel(j)
          /\ FirstFinder(j) # 0 =>
                sm.fetched[j].level = sm.fetched[FirstFinder(j)].level + 1

\* C36 witness: a document of level 2 found a nested sitemap, a further
\* document of level 2 was fetched after it, and the nested one was fetched
\* only then, in level 3.
C36_Witness ==
    /\ Len(sm.fetched) >= 4
    /\ sm.fetched[2].level = 2 /\ sm.fetched[2].queued # <<>>
    /\ sm.fetched[3].level = 2
    /\ \E j \in 4..Len(sm.fetched) :
          /\ sm.fetched[j].level = 3
          /\ FirstFinder(j) = 2

\* ---- C37 ----
\* the call took the path that reads the adapter's counters and recorded them
RecordedOwnPath(call) ==
    /\ call.pc \in {"returned", "raised"}
    /\ call.own_meta # EmptyDict
    /\ call.raised # "AttributeError"

RecordedCountsAreOwn(call) ==
    /\ call.recorded.blocked_count = MetaGet(call.own_meta, "blocked")
    /\ call.recorded.parse_miss_count = MetaGet(call.own_meta, "parse_misses")
    /\ call.recorded.error_count = MetaGet(call.own_meta, "fetch_errors")

\* the same, for the calls that no call on the same adapter overlapped
C37_OwnCountersWithoutOverlapOnOneAdapter ==
    \A t \in Threads :
        (RecordedOwnPath(cc.calls[t]) /\ ~cc.calls[t].shared) =>
            RecordedCountsAreOwn(cc.calls[t])

\* calls on two adapters overlapped and each recorded its own counters
C37_DifferentAdaptersReached ==
    /\ \A t \in Threads : RecordedOwnPath(cc.calls[t]) /\ ~cc.calls[t].shared
    /\ cc.calls[1].adapter # cc.calls[2].adapter
    /\ cc.calls[1].recorded.blocked_count = 1
    /\ cc.calls[2].recorded.error_count = 2

\* C37: when find_candidate_items calls run concurrently, on different
\* marketplaces or on the same one, the blocked, parse-miss and error counts
\* each call records are the ones its own adapter fetch accumulated.
C37_EachCallRecordsItsOwnCounters ==
    \A t \in Threads :
        RecordedOwnPath(cc.calls[t]) => RecordedCountsAreOwn(cc.calls[t])

\* ---- C38 ----
\* the timestamp is the one the call found unless the call returned True
TimestampAdvancedOnlyByTrue ==
    /\ fx.call.state = "none" => fx.FX_LAST_REFRESH_TS = 0
    /\ fx.call.state # "none" =>
          \/ fx.FX_LAST_REFRESH_TS = fx.call.last_refresh_before
          \/ /\ fx.call.state = "returned" /\ fx.call.returned = "True"
             /\ fx.FX_LAST_REFRESH_TS = fx.call.now_ts

\* a non-forced call made right after a call that failed in the request,
\* under the environment of that call
NextCallAfterFailure ==
    /\ fx.call.state # "none"
    /\ ~fx.call.force
    /\ fx.call.previous.failed
    /\ fx.call.previous.same_env

\* the TTL counted from the last successful refresh has not run out
WithinTtlOfEarlierRefresh ==
    /\ fx.call.last_refresh_before # 0
    /\ fx.call.now_ts - fx.call.last_refresh_before <
          TtlAsClaimed(fx.call.env.FX_REFRESH_SECONDS)

\* C38 as claimed: a call that failed at the transport or JSON-decoding
\* stage left the last-refresh timestamp alone, only a call that returned
\* True advanced it, and the next non-forced call contacted the remote source.
C38_FailedRefreshNeverSuppressesNext ==
    /\ TimestampAdvancedOnlyByTrue
    /\ NextCallAfterFailure => fx.call.contacted

\* C38 as amended: the same, except that after a failed call that was forced
\* within the TTL of an earlier successful refresh the next non-forced call
\* is still subject to that TTL: it contacted the remote source exactly when
\* the TTL counted from the earlier refresh had run out.
C38_FailedRefreshOpensNoTtlWindow ==
    /\ TimestampAdvancedOnlyByTrue
    /\ (NextCallAfterFailure /\ ~fx.call.previous.forced_within_ttl) => fx.call.contacted
    /\ (NextCallAfterFailure /\ fx.call.previous.forced_within_ttl) =>
          (fx.call.contacted <=> ~WithinTtlOfEarlierRefresh)

\* C38 witness: a successful refresh, later a call that was due and timed
\* out, and after it a non-forced call that contacted the remote source
\* again and returned True.
C38_Witness ==
    /\ NextCallAfterFailure
    /\ ~fx.call.previous.forced_within_ttl
    /\ fx.call.last_refresh_before # 0
    /\ fx.call.contacted
    /\ fx.call.state = "returned" /\ fx.call.returned = "True"
    /\ fx.FX_LAST_REFRESH_TS = fx.call.now_ts

\* after a forced call that failed within the TTL the next call was skipped
C38_ForcedFailureReached ==
    /\ NextCallAfterFailure
    /\ fx.call.previous.forced_within_ttl
    /\ ~fx.call.contacted

\* ---- C39 ----
\* the last operation was a find_candidate_items call that raised the
\* strict-live error
StrictLiveErrorRaised == tl.op = "find" /\ tl.call.raised = "RuntimeError"

\* the entry get_source_diagnostics reports holds the counters of the
\* call's own fetch and the status that follows from them
ReportsThisCall(entry) ==
    /\ entry.source_name = tl.call.name
    /\ entry.live_count = 0
    /\ entry.fallback_count = 0
    /\ entry.blocked_count = MetaGet(tl.call.fetch_meta, "blocked")
    /\ entry.parse_miss_count = MetaGet(tl.call.fetch_meta, "parse_misses")
    /\ entry.error_count = MetaGet(tl.call.fetch_meta, "fetch_errors")
    /\ entry.status = StatusByPrecedence(entry)

\* C39: when find_candidate_items raises the strict-live error, the
\* diagnostics entry of that marketplace has already been recorded with the
\* counters and the status of that call, so get_source_diagnostics reports
\* the failed source.
C39_StrictLiveErrorAfterRecording ==
    StrictLiveErrorRaised =>
        LET reported == GetSourceDiagnostics(tl.LAST_SOURCE_DIAGNOSTICS)
        IN  \E i \in 1..Len(reported) : ReportsThisCall(reported[i])

\* C39 witness: the strict-live error was raised for a source whose fetches
\* were blocked, after another source had been recorded, and both are
\* reported.
C39_Witness ==
    /\ StrictLiveErrorRaised
    /\ MetaGet(tl.call.fetch_meta, "blocked") >= 1
    /\ tl.LAST_SOURCE_DIAGNOSTICS[tl.call.name].status = "blocked"
    /\ Len(GetSourceDiagnostics(tl.LAST_SOURCE_DIAGNOSTICS)) >= 2

\* ---- C40 ----
\* C40: on every normal return of fetch_candidates the adapter's
\* last_fetch_meta is the counter record of that same call, not of an
\* earlier call, on every return path.
C40_LastFetchMetaIsOfThisCall ==
    ad.pc = "returned" => ad.last_fetch_meta = ad.meta

C40_Witness ==
    /\ ad.pc = "returned"
    /\ ad.adapter = "hlj"
    /\ ad.meta.blocked = 0
    /\ ad.meta.fetch_errors >= 1
    /\ ad.last_fetch_meta.fetch_errors >= 1
    /\ ad.last_fetch_meta.parse_misses = 0

====
